---- MODULE Spec2Model ----
(***************************************************************************)
(* Verification model of the messaging relay: the Twilio provider's poll   *)
(* loop (providers/wa-twilio/provider.ts), the Telegram inbound listener   *)
(* with its allow-list, and the multi-provider relay supervisor            *)
(* (cli/multi-relay.ts).                                                   *)
(*                                                                         *)
(* JavaScript runs one task at a time: the code between two awaits is one  *)
(* atomic step.  Every action below is one such step.                      *)
(***************************************************************************)
EXTENDS Integers, Sequences, FiniteSets, Bags, TLC

\* ------------------------------------------------------------------------
\* Bounds of the model
\* ------------------------------------------------------------------------
MaxMsgs == 2
MaxSessions == 1
MaxPolls == 2
MaxAllow == 1
MaxListeners == 1
\* streaming download: chunks per body, bytes per chunk, largest size limit
MaxChunks == 2
MaxChunkLen == 2
MaxLimit == 2
\* WebProvider: listener instances created, calls in flight
MaxInstances == 2
MaxWebCalls == 2
\* session keys: characters in a sender identifier
MaxIdLen == 3
MaxInbound == 3
MaxAge == 2

VARIABLES
  \* TwilioProvider fields
  twClient, twConfig, twHandler, twListening, twStopFn, twPollIntervalId,
  \* timers created by setInterval that were not cleared, by owning closure
  twTimers,
  \* closures created by startListening: how many, and each one's lastSeenSid
  twSessions, twLastSeen,
  \* poll() invocations in flight (a bag of records)
  twPolls,
  \* the backend's messages inside the lookback window, and how many
  \* messages the backend has recorded so far
  twStore, twRecorded,
  \* history: the last handler invocation and the last finished poll iteration
  twLastCall, twLastIter,
  \* the error the last startListening() call threw ("none": it threw none)
  twStartError

varsTw == <<twClient, twConfig, twHandler, twListening, twStopFn,
            twPollIntervalId, twTimers, twSessions, twLastSeen, twPolls,
            twStore, twRecorded, twLastCall, twLastIter, twStartError>>

VARIABLES
  \* TelegramProvider fields: client ("null", "unconnected", "connected"),
  \* config (null, or holding allowFrom), messageHandler, cleanupListener
  \* (null, or the listener its closure removes)
  tgClient, tgConfig, tgHandler, tgCleanup,
  \* event handlers registered on the current client object, each with the
  \* allowFrom it was started with (a bag)
  tgListeners,
  \* history: the last new-message event dispatched to a listener, and how
  \* the last disconnect() call ended ("none", "returned", "threw")
  tgLast, tgDisconnect

varsTg == <<tgClient, tgConfig, tgHandler, tgCleanup, tgListeners, tgLast,
            tgDisconnect>>

VARIABLES
  \* runMultiProviderRelay: which of the two source versions runs, the
  \* providers argument, signal.aborted, the supervisor's position, and
  \* whether the SIGINT handler is installed
  rlVersion, rlProviders, rlAborted, rlSup, rlSigint,
  \* per provider: the async wrapper of monitorPromises, the monitor it
  \* started, whether that monitor's provider is connected, whether the
  \* wrapper logged an error, and whether the monitor failed after the abort
  rlWrap, rlMon, rlConnected, rlLogged, rlFailAborted,
  \* the tuning in the opts argument (0 / "absent": not supplied), the tuning
  \* each started monitor was called with, and whether a SIGTERM was
  \* delivered while the supervisor was running
  rlOpts, rlTuning, rlSigterm

varsRl == <<rlVersion, rlProviders, rlAborted, rlSup, rlSigint, rlWrap, rlMon,
            rlConnected, rlLogged, rlFailAborted, rlOpts, rlTuning, rlSigterm>>

VARIABLES
  \* streamDownloadToTemp: position of the call, its maxSize argument,
  \* totalSize, the chunks read so far, whether tempPath exists on disk,
  \* why the call threw, whether the last fs.rm was rejected, how often the
  \* cleanup closure of the returned handle was invoked and whether an
  \* invocation has returned
  dlPc, dlMaxSize, dlTotal, dlChunks, dlFile, dlError, dlRmFailed,
  dlCleanups, dlCleanupReturned

varsDl == <<dlPc, dlMaxSize, dlTotal, dlChunks, dlFile, dlError, dlRmFailed,
            dlCleanups, dlCleanupReturned>>

VARIABLES
  \* one call of Provider.send: the provider kind, the version of
  \* telegram/outbound it runs, whether the provider is initialised, the
  \* media option (kind and declared size), capabilities.maxMediaSize, the
  \* position of the call, its outcome, the network requests it has made,
  \* the Content-Length the HEAD response carried (0: none), and whether the
  \* body of the URL was requested
  sdProv, sdVersion, sdInit, sdMedia, sdMaxMedia, sdPc, sdResult, sdRequests,
  sdContentLength, sdBodyRequested,
  \* the last call of Provider.sendTyping
  sdTyping

varsSd == <<sdProv, sdVersion, sdInit, sdMedia, sdMaxMedia, sdPc, sdResult,
            sdRequests, sdContentLength, sdBodyRequested, sdTyping>>

VARIABLES
  \* WebProvider fields: config, socket, messageHandler, listening,
  \* listenerInstance (0: null, else the instance)
  wbConfig, wbSocket, wbHandler, wbListening, wbListener,
  \* listener instances monitorWebInbox has returned, and how often close()
  \* was called on each
  wbInstances, wbCloses,
  \* calls of the provider's async methods that are at their await (a bag)
  wbCalls,
  \* the error the last startListening() call threw ("none": it threw none)
  wbStartError

varsWb == <<wbConfig, wbSocket, wbHandler, wbListening, wbListener,
            wbInstances, wbCloses, wbCalls, wbStartError>>

VARIABLES
  \* one call of Provider.getDeliveryStatus: the provider kind, whether the
  \* provider has its client, the position of the call ("idle", "fetching",
  \* "done"), the message the backend returns (its status, whether it has
  \* an errorCode and a dateUpdated) and the result of the call
  gsKind, gsInit, gsPc, gsMessage, gsResult

varsGs == <<gsKind, gsInit, gsPc, gsMessage, gsResult>>

VARIABLES
  \* telegram/session.ts: which of its two source versions is built, and
  \* the token files at the preferred and the legacy path ("none", "old":
  \* written by an earlier run, "new": written by the last login)
  ssVersion, ssPreferred, ssLegacy,
  \* loginTelegram / logoutTelegram: the running operation, its position,
  \* the step that failed, the steps that succeeded, the token files as they
  \* were when it was called, whether LogOut was accepted by the server, and
  \* how the call ended
  lgOp, lgPc, lgFailed, lgPassed, lgBefore, lgRevoked, lgOutcome

varsLg == <<ssVersion, ssPreferred, ssLegacy, lgOp, lgPc, lgFailed, lgPassed,
            lgBefore, lgRevoked, lgOutcome>>

VARIABLES
  \* one call of deriveSessionKey: the scope, ctx.From (<<>>: absent) and
  \* the key returned
  skScope, skFrom, skKey

varsSk == <<skScope, skFrom, skKey>>

VARIABLES
  \* the auto-reply engine: per inbound message its session key and the
  \* position of its handler, and per session the holder of the lock
  \* (0: free)
  agSession, agPc, agLock

varsAg == <<agSession, agPc, agLock>>

VARIABLES
  \* normalizeAllowFromEntry applied to an entry and then to its own result:
  \* the provider, the entry, the position and the two results
  nmProvider, nmEntry, nmPc, nmOnce, nmTwice

varsNm == <<nmProvider, nmEntry, nmPc, nmOnce, nmTwice>>

VARIABLES
  \* one call of readEnv: the version of env.ts, the provider mode, the
  \* variables that are set in process.env, and how the call ended
  evVersion, evProvider, evEnv, evResult

varsEv == <<evVersion, evProvider, evEnv, evResult>>

VARIABLES
  \* cleanOrphanedTempFiles: the position of the call, the files the temp
  \* directory held when it was called, the files it holds now, and the
  \* entries the sweep has not looked at yet
  osPc, osBefore, osDir, osTodo

varsOs == <<osPc, osBefore, osDir, osTodo>>

vars == <<varsTw, varsTg, varsRl, varsDl, varsSd, varsWb, varsGs, varsLg, varsSk, varsAg, varsNm, varsEv, varsOs>>

\* ------------------------------------------------------------------------
\* Twilio provider
\* ------------------------------------------------------------------------
Sessions == 1..MaxSessions
Directions == {"inbound", "outbound-api"}

\* listRecentMessages: the messages still inside the lookback window.
ListRecentMessages == twStore

\* messages.filter((m) => m.direction === "inbound")
FilterInbound(msgs) == SelectSeq(msgs, LAMBDA m : m.direction = "inbound")

\* [...inbound].sort((a, b) => b.dateCreated - a.dateCreated): a stable
\* insertion sort, newest first.
RECURSIVE InsertByDate(_, _)
InsertByDate(m, sorted) ==
  IF sorted = <<>> THEN <<m>>
  ELSE IF Head(sorted).dateCreated >= m.dateCreated
       THEN <<Head(sorted)>> \o InsertByDate(m, Tail(sorted))
       ELSE <<m>> \o sorted

RECURSIVE SortNewestFirst(_)
SortNewestFirst(msgs) ==
  IF msgs = <<>> THEN <<>>
  ELSE InsertByDate(msgs[Len(msgs)],
                    SortNewestFirst(SubSeq(msgs, 1, Len(msgs) - 1)))

SidsOf(msgs) == [k \in DOMAIN msgs |-> msgs[k].sid]

\* if (lastSeenSid && msg.sid === lastSeenSid) continue;
SkipMessage(sid, lastSeenSid) == lastSeenSid # 0 /\ sid = lastSeenSid

\* The for loop of poll, from index i downwards: the index of the next
\* message handed to the handler, 0 when the loop runs to its end.
RECURSIVE NextToHandle(_, _, _)
NextToHandle(batch, i, lastSeenSid) ==
  IF i = 0 THEN 0
  ELSE IF SkipMessage(batch[i], lastSeenSid)
       THEN NextToHandle(batch, i - 1, lastSeenSid)
       ELSE i

PollsInFlight == BagCardinality(twPolls)

NewPoll(s, isInitial) ==
  [st |-> "fetch", sess |-> s, rest |-> <<>>, newest |-> 0,
   initial |-> isInitial]

\* A poll whose failure clears the timers.
TimersClearedOnFailure(s, initial, how) ==
  IF how = "ok" THEN (IF initial THEN twTimers \cup {s} ELSE twTimers) ELSE {}

\* The timers alive after a poll iteration of closure s has ended: the
\* try/catch of poll swallows every error, so a timer tick changes nothing
\* and startListening goes on to setInterval after its initial poll.
TimersAfterPollEnd(s, initial, how) ==
  IF initial THEN twTimers \cup {s} ELSE twTimers

\* listening after a poll iteration has ended: poll never touches it.
ListeningAfterPollEnd(how) == twListening

\* The end of the poll iteration p (normally or through the catch).  When it
\* is the initial poll, startListening resumes: setInterval and the stop
\* function.
EndPoll(p, how, remaining) ==
  /\ twPolls' = twPolls (-) SetToBag({p})
  /\ twTimers' = TimersAfterPollEnd(p.sess, p.initial, how)
  /\ twListening' = ListeningAfterPollEnd(how)
  /\ twPollIntervalId' = IF p.initial THEN p.sess ELSE twPollIntervalId
  /\ twStopFn' = IF p.initial THEN TRUE ELSE twStopFn
  /\ twLastIter' = [how |-> how, remaining |-> remaining]

\* The loop of the poll iteration p, resumed over the messages `rest` it
\* has not looked at yet (newest first, walked from the end): it either
\* awaits the handler on the next message that is not skipped, or runs to
\* its end, records the newest SID and ends the iteration.
RunLoop(p, rest, newest) ==
  LET j == NextToHandle(rest, Len(rest), twLastSeen[p.sess])
  IN IF j > 0
     THEN /\ twPolls' = (twPolls (-) SetToBag({p})) (+)
                        SetToBag({[p EXCEPT !.st = "handler",
                                            !.rest = SubSeq(rest, 1, j - 1),
                                            !.newest = newest]})
          /\ twLastCall' = [sid |-> rest[j], seen |-> twLastSeen[p.sess]]
          /\ UNCHANGED <<twTimers, twListening, twPollIntervalId, twStopFn,
                         twLastIter, twLastSeen>>
     ELSE /\ twLastSeen' = IF newest # 0
                           THEN [twLastSeen EXCEPT ![p.sess] = newest]
                           ELSE twLastSeen
          /\ EndPoll(p, "ok", <<>>)
          /\ UNCHANGED twLastCall

\* initialize(config)
TwInitialize(cfg) ==
  /\ twConfig' = IF cfg = "wrongKind" THEN twConfig ELSE TRUE
  /\ twClient' = IF cfg = "ok" THEN TRUE ELSE twClient
  /\ UNCHANGED <<twHandler, twListening, twStopFn, twPollIntervalId, twTimers,
                 twSessions, twLastSeen, twPolls, twStore, twRecorded,
                 twLastCall, twLastIter>>
  /\ UNCHANGED twStartError

\* onMessage(handler)
TwOnMessage ==
  /\ twHandler' = TRUE
  /\ UNCHANGED <<twClient, twConfig, twListening, twStopFn, twPollIntervalId,
                 twTimers, twSessions, twLastSeen, twPolls, twStore, twRecorded,
                 twLastCall, twLastIter>>
  /\ UNCHANGED twStartError

\* A startListening() that does not look at the listening flag.
StartListeningErrorIgnoresListening(config, handler, listening) ==
  IF ~config THEN "Provider not initialized"
  ELSE IF ~handler THEN "Message handler not set"
  ELSE "none"

\* The error the checks at the top of startListening() throw.
StartListeningError(config, handler, listening) ==
  IF ~config THEN "Provider not initialized"
  ELSE IF ~handler THEN "Message handler not set"
  ELSE IF listening THEN "Already listening"
  ELSE "none"

\* startListening(): the error it throws or, when it throws none, the call
\* up to the await of the initial poll's listRecentMessages
TwStartListening ==
  LET error == StartListeningError(twConfig, twHandler, twListening)
  IN /\ twStartError' = error
     /\ IF error # "none"
        THEN UNCHANGED <<twSessions, twLastSeen, twListening, twPolls>>
        ELSE /\ twSessions < MaxSessions
             /\ PollsInFlight < MaxPolls
             /\ twSessions' = twSessions + 1
             /\ twLastSeen' = [twLastSeen EXCEPT ![twSessions + 1] = 0]
             /\ twListening' = TRUE
             /\ twPolls' = twPolls (+) SetToBag({NewPoll(twSessions + 1, TRUE)})
     /\ UNCHANGED <<twClient, twConfig, twHandler, twStopFn, twPollIntervalId,
                    twTimers, twStore, twRecorded, twLastCall, twLastIter>>

\* a tick of the interval timer of closure s: poll() up to its first await
TwTick(s) ==
  /\ s \in twTimers
  /\ PollsInFlight < MaxPolls
  /\ twPolls' = twPolls (+) SetToBag({NewPoll(s, FALSE)})
  /\ UNCHANGED <<twClient, twConfig, twHandler, twListening, twStopFn,
                 twPollIntervalId, twTimers, twSessions, twLastSeen, twStore,
                 twRecorded, twLastCall, twLastIter>>
  /\ UNCHANGED twStartError

\* listRecentMessages resolves: filter, sort, and the loop up to its first
\* handler call
TwFetchOk(p) ==
  /\ p.st = "fetch"
  /\ LET newestFirst ==
           SidsOf(SortNewestFirst(FilterInbound(ListRecentMessages)))
     IN RunLoop(p, newestFirst,
                IF newestFirst = <<>> THEN 0 ELSE newestFirst[1])
  /\ UNCHANGED <<twClient, twConfig, twHandler, twSessions, twStore, twRecorded>>
  /\ UNCHANGED twStartError

\* listRecentMessages rejects: the catch of poll
TwFetchFail(p) ==
  /\ p.st = "fetch"
  /\ EndPoll(p, "fetchError", <<>>)
  /\ UNCHANGED <<twClient, twConfig, twHandler, twSessions, twLastSeen,
                 twStore, twRecorded, twLastCall>>
  /\ UNCHANGED twStartError

\* the handler resolves: the loop goes on with the next older message
TwHandlerOk(p) ==
  /\ p.st = "handler"
  /\ RunLoop(p, p.rest, p.newest)
  /\ UNCHANGED <<twClient, twConfig, twHandler, twSessions, twStore, twRecorded>>
  /\ UNCHANGED twStartError

\* the handler rejects: the catch of poll; the messages of the batch not yet
\* handed over are left, and lastSeenSid is not updated
TwHandlerThrow(p) ==
  /\ p.st = "handler"
  /\ EndPoll(p, "handlerError",
             SelectSeq(p.rest,
                       LAMBDA sid : ~SkipMessage(sid, twLastSeen[p.sess])))
  /\ UNCHANGED <<twClient, twConfig, twHandler, twSessions, twLastSeen,
                 twStore, twRecorded, twLastCall>>
  /\ UNCHANGED twStartError

\* The fields stopListening() reads and writes, with the number of
\* clearInterval calls made and whether a call threw.
TwStopFields ==
  [listening |-> twListening, stopFn |-> twStopFn,
   pollIntervalId |-> twPollIntervalId, timers |-> twTimers,
   cleared |-> 0, threw |-> FALSE]

\* The values the fields of a TwilioProvider can hold between calls.
TwStopFieldValues ==
  [listening : BOOLEAN, stopFn : BOOLEAN, pollIntervalId : 0..MaxSessions,
   timers : SUBSET Sessions, cleared : {0}, threw : {FALSE}]

\* stopMonitoringFn clears the interval: if (this.pollIntervalId)
ClearsInterval(f) == f.stopFn /\ f.pollIntervalId # 0

\* stopMonitoringFn: clearInterval(this.pollIntervalId)
TimersAfterStop(f) ==
  IF ClearsInterval(f) THEN f.timers \ {f.pollIntervalId} ELSE f.timers

\* A stopListening() that refuses to run when the provider is not listening.
TwStoppedOrThrows(f) ==
  IF ~f.listening THEN [f EXCEPT !.threw = TRUE]
  ELSE [listening |-> FALSE, stopFn |-> FALSE,
        pollIntervalId |-> IF f.stopFn THEN 0 ELSE f.pollIntervalId,
        timers |-> TimersAfterStop(f),
        cleared |-> IF ClearsInterval(f) THEN f.cleared + 1 ELSE f.cleared,
        threw |-> f.threw]

\* stopListening() as a function of the fields
TwStopped(f) ==
  IF ~f.listening THEN f
  ELSE [listening |-> FALSE, stopFn |-> FALSE,
        pollIntervalId |-> IF f.stopFn THEN 0 ELSE f.pollIntervalId,
        timers |-> TimersAfterStop(f),
        cleared |-> IF ClearsInterval(f) THEN f.cleared + 1 ELSE f.cleared,
        threw |-> f.threw]

\* the body of stopListening()
StopListeningEffect ==
  LET g == TwStopped(TwStopFields)
  IN /\ twTimers' = g.timers
     /\ twPollIntervalId' = g.pollIntervalId
     /\ twStopFn' = g.stopFn
     /\ twListening' = g.listening

\* stopListening()
TwStopListening ==
  /\ StopListeningEffect
  /\ UNCHANGED <<twClient, twConfig, twHandler, twSessions, twLastSeen,
                 twPolls, twStore, twRecorded, twLastCall, twLastIter>>
  /\ UNCHANGED twStartError

\* disconnect()
TwDisconnect ==
  /\ StopListeningEffect
  /\ twClient' = FALSE
  /\ twConfig' = FALSE
  /\ UNCHANGED <<twHandler, twSessions, twLastSeen, twPolls, twStore,
                 twRecorded, twLastCall, twLastIter>>
  /\ UNCHANGED twStartError

\* the backend receives or records a message
TwArrive(dir) ==
  /\ twRecorded < MaxMsgs
  /\ twRecorded' = twRecorded + 1
  /\ twStore' = Append(twStore, [sid |-> twRecorded + 1,
                                 dateCreated |-> twRecorded + 1,
                                 direction |-> dir])
  /\ UNCHANGED <<twClient, twConfig, twHandler, twListening, twStopFn,
                 twPollIntervalId, twTimers, twSessions, twLastSeen, twPolls,
                 twLastCall, twLastIter>>
  /\ UNCHANGED twStartError

\* time passes: the oldest listed message leaves the lookback window
TwExpire ==
  /\ twStore # <<>>
  /\ twStore' = Tail(twStore)
  /\ UNCHANGED <<twClient, twConfig, twHandler, twListening, twStopFn,
                 twPollIntervalId, twTimers, twSessions, twLastSeen, twPolls,
                 twRecorded, twLastCall, twLastIter>>
  /\ UNCHANGED twStartError


\* ------------------------------------------------------------------------
\* Telegram provider: inbound listener and allow-list
\* ------------------------------------------------------------------------
\* Identifiers are sequences of characters.
Lower(c) == IF c = "A" THEN "a" ELSE IF c = "B" THEN "b" ELSE c

RECURSIVE TrimLeft(_)
TrimLeft(id) == IF id # <<>> /\ Head(id) = " " THEN TrimLeft(Tail(id)) ELSE id

RECURSIVE TrimRight(_)
TrimRight(id) ==
  IF id # <<>> /\ id[Len(id)] = " "
  THEN TrimRight(SubSeq(id, 1, Len(id) - 1)) ELSE id

Trim(id) == TrimRight(TrimLeft(id))

ToLowerCase(id) == [k \in DOMAIN id |-> Lower(id[k])]

\* The form in which isAllowedSender compares a sender with an entry:
\* trimmed, lower case, without the leading "@".
NormalizeSenderId(id) ==
  LET t == ToLowerCase(Trim(id))
  IN IF t # <<>> /\ Head(t) = "@" THEN Tail(t) ELSE t

\* The sender matches an entry of the list.
InAllowList(from, list) ==
  \E k \in DOMAIN list : NormalizeSenderId(list[k]) = NormalizeSenderId(from)

\* isAllowedSender(message, allowFrom): no list and the empty list allow
\* every sender; otherwise the sender must match an entry.
IsAllowedSender(from, allowFrom) ==
  IF ~allowFrom.present THEN TRUE
  ELSE IF allowFrom.list = <<>> THEN TRUE
  ELSE InAllowList(from, allowFrom.list)

SenderIds == {<<"@", "a">>, <<"@", "A">>, <<"@", "b">>, <<"+", "1">>}
AllowEntries == {<<"@", "a">>, <<"A">>, <<" ", "@", "b", " ">>, <<"+", "1">>}

RECURSIVE SeqsUpTo(_, _)
SeqsUpTo(S, n) ==
  IF n = 0 THEN {<<>>}
  ELSE LET shorter == SeqsUpTo(S, n - 1)
       IN shorter \cup {Append(q, x) : q \in shorter, x \in S}

\* allowFrom?: string[] -- absent, or a list of entries
Absent == [present |-> FALSE, list |-> <<>>]
AllowFromValues ==
  {Absent} \cup {[present |-> TRUE, list |-> l] :
                   l \in SeqsUpTo(AllowEntries, MaxAllow)}

NullConfig == [set |-> FALSE, allowFrom |-> Absent]
NullCleanup == [set |-> FALSE, allowFrom |-> Absent, current |-> FALSE]

\* initialize(config)
TgInitialize(allowFrom, outcome) ==
  /\ outcome \in {"ok", "connectFailed"} => tgClient # "connected"
  /\ tgConfig' = IF outcome = "wrongKind" THEN tgConfig
                 ELSE [set |-> TRUE, allowFrom |-> allowFrom]
  /\ tgClient' = CASE outcome = "ok" -> "connected"
                   [] outcome = "connectFailed" -> "unconnected"
                   [] OTHER -> tgClient
  \* a new client object carries none of the old one's event handlers
  /\ tgListeners' = IF outcome \in {"ok", "connectFailed"}
                    THEN EmptyBag ELSE tgListeners
  /\ tgCleanup' = IF outcome \in {"ok", "connectFailed"}
                  THEN [tgCleanup EXCEPT !.current = FALSE] ELSE tgCleanup
  /\ UNCHANGED <<tgHandler, tgLast, tgDisconnect>>

\* onMessage(handler)
TgOnMessage ==
  /\ tgHandler' = TRUE
  /\ UNCHANGED <<tgClient, tgConfig, tgCleanup, tgListeners, tgLast,
                 tgDisconnect>>

\* startListening(): startMessageListener(client, handler, config?.allowFrom)
TgStartListening ==
  /\ tgClient # "null"
  /\ tgHandler
  /\ BagCardinality(tgListeners) < MaxListeners
  /\ LET allowFrom == IF tgConfig.set THEN tgConfig.allowFrom ELSE Absent
     IN /\ tgListeners' = tgListeners (+) SetToBag({allowFrom})
        /\ tgCleanup' = [set |-> TRUE, allowFrom |-> allowFrom,
                         current |-> TRUE]
  /\ UNCHANGED <<tgClient, tgConfig, tgHandler, tgLast, tgDisconnect>>

\* The fields stopListening() reads and writes, with the number of times a
\* cleanup closure was invoked and whether a call threw.
TgStopFields ==
  [cleanup |-> tgCleanup, listeners |-> tgListeners, invoked |-> 0,
   threw |-> FALSE]

\* The values the fields of a TelegramProvider can hold between calls: a
\* cleanup closure whose handler is still registered has it among the
\* client's handlers.
TgStopFieldValues ==
  {f \in [cleanup : {NullCleanup} \cup
                      [set : {TRUE}, allowFrom : AllowFromValues,
                       current : BOOLEAN],
          listeners : {EmptyBag} \cup {SetToBag({a}) : a \in AllowFromValues},
          invoked : {0}, threw : {FALSE}] :
     f.cleanup.current => BagIn(f.cleanup.allowFrom, f.listeners)}

\* stopListening() as a function of the fields: the cleanup closure removes
\* the event handler it registered, if the client still carries it
TgStopped(f) ==
  IF ~f.cleanup.set THEN f
  ELSE [cleanup |-> NullCleanup,
        listeners |-> IF f.cleanup.current
                      THEN f.listeners (-) SetToBag({f.cleanup.allowFrom})
                      ELSE f.listeners,
        invoked |-> f.invoked + 1,
        threw |-> f.threw]

\* stopListening()
TgStopListening ==
  /\ LET g == TgStopped(TgStopFields)
     IN /\ tgListeners' = g.listeners
        /\ tgCleanup' = g.cleanup
  /\ UNCHANGED <<tgClient, tgConfig, tgHandler, tgLast, tgDisconnect>>

\* How disconnect() ends: without a client it does nothing; otherwise it
\* awaits client.disconnect() with no catch, so a rejection escapes.
DisconnectOutcome(client, backendOk) ==
  IF client # "null" /\ ~backendOk THEN "threw" ELSE "returned"

\* disconnect(): if (this.client) { await this.client.disconnect();
\* this.client = null; }
TgDisconnect(backendOk) ==
  LET how == DisconnectOutcome(tgClient, backendOk)
  IN /\ tgDisconnect' = how
     /\ tgClient' = IF how = "threw" THEN tgClient ELSE "null"
     /\ tgListeners' = IF tgClient # "null" /\ how = "returned"
                       THEN EmptyBag ELSE tgListeners
     /\ tgCleanup' = IF tgClient # "null" /\ how = "returned"
                     THEN [tgCleanup EXCEPT !.current = FALSE] ELSE tgCleanup
     /\ UNCHANGED <<tgConfig, tgHandler, tgLast>>

\* a new-message event reaches the listener started with allowFrom: events
\* with the outgoing flag are dropped, then the allow-list decides whether the
\* handler is invoked; only an invoked handler can send a reply
TgEvent(from, out, allowFrom, replies) ==
  /\ tgClient = "connected"
  /\ allowFrom \in BagToSet(tgListeners)
  /\ LET handled == ~out /\ IsAllowedSender(from, allowFrom)
     IN tgLast' = [from |-> from, out |-> out, allowFrom |-> allowFrom,
                   handled |-> handled, replied |-> handled /\ replies]
  /\ UNCHANGED <<tgClient, tgConfig, tgHandler, tgCleanup, tgListeners,
                 tgDisconnect>>

InitTg ==
  /\ tgClient = "null"
  /\ tgConfig = NullConfig
  /\ tgHandler = FALSE
  /\ tgCleanup = NullCleanup
  /\ tgListeners = EmptyBag
  /\ tgLast = [from |-> <<>>, out |-> TRUE, allowFrom |-> Absent,
               handled |-> FALSE, replied |-> FALSE]
  /\ tgDisconnect = "none"

NextTg ==
  \/ \E allowFrom \in AllowFromValues,
        outcome \in {"wrongKind", "noSession", "connectFailed", "ok"} :
       TgInitialize(allowFrom, outcome)
  \/ TgOnMessage
  \/ TgStartListening
  \/ TgStopListening
  \/ \E backendOk \in BOOLEAN : TgDisconnect(backendOk)
  \/ \E from \in SenderIds, out \in BOOLEAN, allowFrom \in AllowFromValues,
        replies \in BOOLEAN :
       TgEvent(from, out, allowFrom, replies)

\* ------------------------------------------------------------------------
\* Relay supervisor: runMultiProviderRelay
\* ------------------------------------------------------------------------
Kinds == {"telegram", "wa-web", "wa-twilio"}
Versions == {"cli/multi-relay.ts", "part_008"}

\* The wrapper awaits Promise.race([monitorPromise, <abort>]).
Raced(version, p) ==
  \/ p = "wa-twilio"
  \/ p = "telegram" /\ version = "cli/multi-relay.ts"

\* The monitor is handed the AbortSignal.
PassesSignal(version, p) ==
  \/ p = "wa-web"
  \/ p = "telegram" /\ version = "part_008"

\* A race whose abort listener never resolves it.
RaceNeverResolves(version, p) == FALSE

\* The race of a wrapper resolves through its abort listener.
RaceResolvesOnAbort(version, p) == Raced(version, p)

\* A catch block that logs nothing.
CatchLogsNothing(aborted) == FALSE

\* catch (err) { if (signal.aborted) return; runtime.error(...) }
CatchLogs(aborted) == ~aborted

\* What the catch block makes of the wrapper's promise.
WrapAfterCatch == "fulfilled"

\* Promise.allSettled(monitorPromises)
AllSettled == \A p \in rlProviders : rlWrap[p] \in {"fulfilled", "rejected"}

\* const intervalSeconds = opts.twilioInterval ?? 10 and
\* const lookbackMinutes = opts.twilioLookback ?? 5
DefaultInterval == 10
DefaultLookback == 5

\* The opts argument: each tuning value is absent or supplied (and then
\* differs from the default).
NoTuning == [twilioInterval |-> 0, twilioLookback |-> 0, webTuning |-> "absent"]
OptsValues ==
  [twilioInterval : {0, DefaultInterval + 1},
   twilioLookback : {0, DefaultLookback + 1},
   webTuning : {"absent", "supplied"}]

\* The first argument of monitorTwilio: cli/multi-relay.ts calls
\* monitorTwilio(10, 5); part_008 calls it with opts.twilioInterval ?? 10.
TwilioIntervalUsed(version, opts) ==
  IF version = "part_008" /\ opts.twilioInterval # 0
  THEN opts.twilioInterval ELSE DefaultInterval

\* The second argument of monitorTwilio.
TwilioLookbackUsed(version, opts) ==
  IF version = "part_008" /\ opts.twilioLookback # 0
  THEN opts.twilioLookback ELSE DefaultLookback

\* The tuning argument of monitorWebProvider: opts.webTuning ?? {} in
\* part_008, no such argument in cli/multi-relay.ts.
WebTuningUsed(version, opts) ==
  IF version = "part_008" THEN opts.webTuning ELSE "absent"

\* The tuning the monitors have been called with once the monitor of p is
\* started.
TuningAfterStart(version, p, opts, tuning) ==
  CASE p = "wa-twilio" ->
         [tuning EXCEPT !.twilioInterval = TwilioIntervalUsed(version, opts),
                        !.twilioLookback = TwilioLookbackUsed(version, opts)]
    [] p = "wa-web" ->
         [tuning EXCEPT !.webTuning = WebTuningUsed(version, opts)]
    [] OTHER -> tuning

\* runMultiProviderRelay(providers, ...) up to the await of allSettled; every
\* wrapper runs up to its await import(...)
RlStart(version, providers, opts) ==
  /\ rlSup = "idle"
  /\ providers # {}
  /\ rlOpts' = opts
  /\ rlVersion' = version
  /\ rlProviders' = providers
  /\ rlSigint' = TRUE
  /\ rlSup' = "waiting"
  /\ rlWrap' = [p \in Kinds |-> IF p \in providers THEN "importing" ELSE "none"]
  /\ UNCHANGED <<rlAborted, rlMon, rlConnected, rlLogged, rlFailAborted>>
  /\ UNCHANGED <<rlTuning, rlSigterm>>

\* the import of p's monitor module resolves: the monitor is started and the
\* wrapper awaits it (or the race, which an already aborted signal resolves)
RlImportDone(p) ==
  /\ rlWrap[p] = "importing"
  /\ rlTuning' = TuningAfterStart(rlVersion, p, rlOpts, rlTuning)
  /\ rlMon' = [rlMon EXCEPT ![p] = "running"]
  /\ rlConnected' = [rlConnected EXCEPT ![p] = TRUE]
  /\ rlWrap' = [rlWrap EXCEPT ![p] =
                  IF rlAborted /\ RaceResolvesOnAbort(rlVersion, p)
                  THEN "fulfilled" ELSE "awaiting"]
  /\ UNCHANGED <<rlVersion, rlProviders, rlAborted, rlSup, rlSigint, rlLogged,
                 rlFailAborted>>
  /\ UNCHANGED <<rlOpts, rlSigterm>>

\* the import rejects: the catch block of the wrapper
RlImportFail(p) ==
  /\ rlWrap[p] = "importing"
  /\ rlWrap' = [rlWrap EXCEPT ![p] = WrapAfterCatch]
  /\ rlLogged' = [rlLogged EXCEPT ![p] = CatchLogs(rlAborted)]
  /\ UNCHANGED <<rlVersion, rlProviders, rlAborted, rlSup, rlSigint, rlMon,
                 rlConnected, rlFailAborted>>
  /\ UNCHANGED <<rlOpts, rlTuning, rlSigterm>>

\* SIGINT: sigintHandler aborts the controller; the abort listeners of the
\* races resolve them
RlSigintReceived ==
  /\ rlSigint
  /\ rlAborted' = TRUE
  /\ rlWrap' = [p \in Kinds |->
                  IF rlWrap[p] = "awaiting" /\ RaceResolvesOnAbort(rlVersion, p)
                  THEN "fulfilled" ELSE rlWrap[p]]
  /\ UNCHANGED <<rlVersion, rlProviders, rlSup, rlSigint, rlMon, rlConnected,
                 rlLogged, rlFailAborted>>
  /\ UNCHANGED <<rlOpts, rlTuning, rlSigterm>>

\* SIGTERM is delivered while the supervisor runs: process.on is called for
\* "SIGINT" only, so no listener of the supervisor runs and the controller
\* is not aborted
RlSigtermReceived ==
  /\ rlSigint
  /\ rlSigterm' = TRUE
  /\ UNCHANGED <<rlVersion, rlProviders, rlAborted, rlSup, rlSigint, rlWrap,
                 rlMon, rlConnected, rlLogged, rlFailAborted, rlOpts, rlTuning>>

\* a monitor that was handed the signal observes the abort: it stops
\* listening, disconnects its provider and resolves
RlMonitorStops(p) ==
  /\ rlMon[p] = "running"
  /\ rlAborted
  /\ PassesSignal(rlVersion, p)
  /\ rlMon' = [rlMon EXCEPT ![p] = "resolved"]
  /\ rlConnected' = [rlConnected EXCEPT ![p] = FALSE]
  /\ rlWrap' = [rlWrap EXCEPT ![p] =
                  IF rlWrap[p] = "awaiting" THEN "fulfilled" ELSE rlWrap[p]]
  /\ UNCHANGED <<rlVersion, rlProviders, rlAborted, rlSup, rlSigint, rlLogged,
                 rlFailAborted>>
  /\ UNCHANGED <<rlOpts, rlTuning, rlSigterm>>

\* a monitor returns on its own
RlMonitorReturns(p) ==
  /\ rlMon[p] = "running"
  /\ rlMon' = [rlMon EXCEPT ![p] = "resolved"]
  /\ rlConnected' = [rlConnected EXCEPT ![p] = FALSE]
  /\ rlWrap' = [rlWrap EXCEPT ![p] =
                  IF rlWrap[p] = "awaiting" THEN "fulfilled" ELSE rlWrap[p]]
  /\ UNCHANGED <<rlVersion, rlProviders, rlAborted, rlSup, rlSigint, rlLogged,
                 rlFailAborted>>
  /\ UNCHANGED <<rlOpts, rlTuning, rlSigterm>>

\* a monitor rejects: the catch block of a wrapper still awaiting it
RlMonitorFails(p) ==
  /\ rlMon[p] = "running"
  /\ rlMon' = [rlMon EXCEPT ![p] = "rejected"]
  /\ rlConnected' = [rlConnected EXCEPT ![p] = FALSE]
  /\ rlFailAborted' = [rlFailAborted EXCEPT ![p] = rlAborted]
  /\ IF rlWrap[p] = "awaiting"
     THEN /\ rlWrap' = [rlWrap EXCEPT ![p] = WrapAfterCatch]
          /\ rlLogged' = [rlLogged EXCEPT ![p] = CatchLogs(rlAborted)]
     ELSE UNCHANGED <<rlWrap, rlLogged>>
  /\ UNCHANGED <<rlVersion, rlProviders, rlAborted, rlSup, rlSigint>>
  /\ UNCHANGED <<rlOpts, rlTuning, rlSigterm>>

\* allSettled resolves: process.off("SIGINT"), the last log line, return;
\* a rejected wrapper would not stop allSettled from resolving
RlReturn ==
  /\ rlSup = "waiting"
  /\ AllSettled
  /\ rlSup' = "returned"
  /\ rlSigint' = FALSE
  /\ UNCHANGED <<rlVersion, rlProviders, rlAborted, rlWrap, rlMon, rlConnected,
                 rlLogged, rlFailAborted>>
  /\ UNCHANGED <<rlOpts, rlTuning, rlSigterm>>

InitRl ==
  /\ rlVersion = "none"
  /\ rlProviders = {}
  /\ rlAborted = FALSE
  /\ rlSup = "idle"
  /\ rlSigint = FALSE
  /\ rlWrap = [p \in Kinds |-> "none"]
  /\ rlMon = [p \in Kinds |-> "none"]
  /\ rlConnected = [p \in Kinds |-> FALSE]
  /\ rlLogged = [p \in Kinds |-> FALSE]
  /\ rlFailAborted = [p \in Kinds |-> FALSE]
  /\ rlOpts = NoTuning
  /\ rlTuning = NoTuning
  /\ rlSigterm = FALSE

NextRl ==
  \/ \E version \in Versions, providers \in SUBSET Kinds, opts \in OptsValues :
       RlStart(version, providers, opts)
  \/ \E p \in Kinds : RlImportDone(p)
  \/ \E p \in Kinds : RlImportFail(p)
  \/ RlSigintReceived
  \/ RlSigtermReceived
  \/ \E p \in Kinds : RlMonitorStops(p)
  \/ \E p \in Kinds : RlMonitorReturns(p)
  \/ \E p \in Kinds : RlMonitorFails(p)
  \/ RlReturn

\* ------------------------------------------------------------------------
\* Telegram streaming download: streamDownloadToTemp
\* ------------------------------------------------------------------------
\* A size check that lets one byte too many through.
ExceedsLimitOffByOne(totalSize, maxSize) == totalSize > maxSize + 1

\* if (totalSize > maxSize) callback(new Error(...))
ExceedsLimit(totalSize, maxSize) == totalSize > maxSize

\* An fs.rm that leaves the file in place.
RmKeepsFile(file, ok) == file

\* fs.rm(tempPath, { force: true }): the path is gone when the call
\* succeeds; a rejected call leaves it.
RmEffect(file, ok) == IF ok THEN "none" ELSE file

\* fs.rm can only be rejected for a path that exists (force: true)
RmOutcomes(file) == IF file = "exists" THEN BOOLEAN ELSE {TRUE}

\* streamDownloadToTemp(url, maxSize), up to await ensureTempDir()
DlCall(maxSize) ==
  /\ dlPc = "idle"
  /\ dlPc' = "mkdir"
  /\ dlMaxSize' = maxSize
  /\ UNCHANGED <<dlTotal, dlChunks, dlFile, dlError, dlRmFailed, dlCleanups,
                 dlCleanupReturned>>

\* ensureTempDir resolves or rejects; then await fetch(url)
DlMkdir(ok) ==
  /\ dlPc = "mkdir"
  /\ dlPc' = IF ok THEN "fetch" ELSE "threw"
  /\ dlError' = IF ok THEN dlError ELSE "mkdir"
  /\ UNCHANGED <<dlMaxSize, dlTotal, dlChunks, dlFile, dlRmFailed, dlCleanups,
                 dlCleanupReturned>>

\* fetch settles: a rejection, a response that is not ok and a response
\* without body throw before the write stream is created; otherwise
\* createWriteStream(tempPath) and the pipeline starts
DlFetch(outcome) ==
  /\ dlPc = "fetch"
  /\ IF outcome = "ok"
     THEN /\ dlPc' = "pipe"
          /\ dlFile' = "exists"
          /\ UNCHANGED dlError
     ELSE /\ dlPc' = "threw"
          /\ dlError' = outcome
          /\ UNCHANGED dlFile
  /\ UNCHANGED <<dlMaxSize, dlTotal, dlChunks, dlRmFailed, dlCleanups,
                 dlCleanupReturned>>

\* the transform receives a chunk of n bytes: it counts it and either fails
\* the pipeline (the catch block then awaits fs.rm) or passes it on
DlChunk(n) ==
  /\ dlPc = "pipe"
  /\ dlChunks < MaxChunks
  /\ dlChunks' = dlChunks + 1
  /\ dlTotal' = dlTotal + n
  /\ IF ExceedsLimit(dlTotal + n, dlMaxSize)
     THEN dlPc' = "rmOnError" /\ dlError' = "size"
     ELSE UNCHANGED <<dlPc, dlError>>
  /\ UNCHANGED <<dlMaxSize, dlFile, dlRmFailed, dlCleanups, dlCleanupReturned>>

\* the body or the write stream fails: the pipeline rejects
DlPipeError ==
  /\ dlPc = "pipe"
  /\ dlPc' = "rmOnError"
  /\ dlError' = "stream"
  /\ UNCHANGED <<dlMaxSize, dlTotal, dlChunks, dlFile, dlRmFailed, dlCleanups,
                 dlCleanupReturned>>

\* the body ends: the pipeline resolves and the handle is returned
DlEnd ==
  /\ dlPc = "pipe"
  /\ dlPc' = "returned"
  /\ UNCHANGED <<dlMaxSize, dlTotal, dlChunks, dlFile, dlError, dlRmFailed,
                 dlCleanups, dlCleanupReturned>>

\* A catch block that rethrows without removing the file.
FileAfterCatchNoRm(file, ok) == file

\* the file after the catch block's fs.rm
FileAfterCatch(file, ok) == RmEffect(file, ok)

\* catch (error): await fs.rm(tempPath, { force: true }).catch(() => {});
\* throw error
DlRmOnError(ok) ==
  /\ dlPc = "rmOnError"
  /\ ok \in RmOutcomes(dlFile)
  /\ dlFile' = FileAfterCatch(dlFile, ok)
  /\ dlRmFailed' = ~ok
  /\ dlPc' = "threw"
  /\ UNCHANGED <<dlMaxSize, dlTotal, dlChunks, dlError, dlCleanups,
                 dlCleanupReturned>>

\* the effect of one whole invocation of the handle's cleanup closure:
\* await fs.rm(tempPath, { force: true }).catch(() => {})
CleanupEffect(ok) ==
  /\ dlFile' = RmEffect(dlFile, ok)
  /\ dlRmFailed' = ~ok
  /\ dlCleanups' = dlCleanups + 1
  /\ dlCleanupReturned' = TRUE

\* the caller invokes cleanup() of the returned handle
DlCleanup(ok) ==
  /\ dlPc = "returned"
  /\ dlCleanups < 2
  /\ ok \in RmOutcomes(dlFile)
  /\ CleanupEffect(ok)
  /\ UNCHANGED <<dlPc, dlMaxSize, dlTotal, dlChunks, dlError>>

InitDl ==
  /\ dlPc = "idle"
  /\ dlMaxSize = 0
  /\ dlTotal = 0
  /\ dlChunks = 0
  /\ dlFile = "none"
  /\ dlError = "none"
  /\ dlRmFailed = FALSE
  /\ dlCleanups = 0
  /\ dlCleanupReturned = FALSE

\* the steps of a call of streamDownloadToTemp after its entry
NextDlRunning ==
  \/ \E ok \in BOOLEAN : DlMkdir(ok)
  \/ \E outcome \in {"rejected", "notOk", "noBody", "ok"} : DlFetch(outcome)
  \/ \E n \in 1..MaxChunkLen : DlChunk(n)
  \/ DlPipeError
  \/ DlEnd
  \/ \E ok \in BOOLEAN : DlRmOnError(ok)

NextDl ==
  \/ \E maxSize \in 0..MaxLimit : DlCall(maxSize)
  \/ NextDlRunning
  \/ \E ok \in BOOLEAN : DlCleanup(ok)

\* ------------------------------------------------------------------------
\* Outbound: Provider.send and Provider.sendTyping
\* ------------------------------------------------------------------------
\* Sizes are counted in units of 1 GB.
\* const defaultMax = 2 * 1024 * 1024 * 1024
TelegramDefaultMax == 2

\* const maxSize = 2 * 1024 * 1024 * 1024 in sendMediaMessage
HeadCheckMax == 2

OutboundVersions == {"outbound.ts", "part_007", "streaming"}
MediaKinds == {"none", "buffer", "url", "neither"}
NoMedia == [kind |-> "none", size |-> 0]

\* getMaxMediaSize(): the override in force, never above the default
MaxMediaSizes == 1..TelegramDefaultMax

\* The version of sendMediaMessage asks for the size with a HEAD request.
SendsHead(version) == version \in {"part_007", "streaming"}

\* The limit the Content-Length of the HEAD response is compared with.
HeadLimit(version, maxMedia) ==
  IF version = "part_007" THEN HeadCheckMax ELSE maxMedia

\* if (contentLength) { ... if (sizeBytes > maxSize) throw ... }
HeadRejects(version, contentLength, maxMedia) ==
  contentLength # 0 /\ contentLength > HeadLimit(version, maxMedia)

\* What a rejected backend call makes of send(): Twilio and Web catch it and
\* return a failed SendResult, TelegramProvider.send has no catch.
SendFailure(prov) == IF prov = "telegram" THEN "threw" ELSE "failed"

\* A finally block that is skipped when sendFile rejects.
CleanupOnlyOnSuccess(sendOk) == sendOk

\* try { sendFile } finally { await download.cleanup() }
CleanupAfterSend(sendOk) == TRUE

SdFinish(result) ==
  /\ sdPc' = "done"
  /\ sdResult' = result

\* send(to, body, options) up to its first await
SdSend(prov, version, init, media, maxMedia) ==
  /\ sdPc = "idle"
  /\ sdProv' = prov
  /\ sdVersion' = IF prov = "telegram" THEN version ELSE "none"
  /\ sdInit' = init
  /\ sdMedia' = media
  /\ sdMaxMedia' = maxMedia
  /\ IF ~init
     THEN SdFinish("threw") /\ UNCHANGED sdRequests
     ELSE IF prov = "telegram"
          THEN /\ sdPc' = "resolve"
               /\ sdRequests' = sdRequests \cup {"resolveEntity"}
               /\ UNCHANGED sdResult
          ELSE /\ sdPc' = "backend"
               /\ sdRequests' = sdRequests \cup {"backend"}
               /\ UNCHANGED sdResult
  /\ UNCHANGED <<sdContentLength, sdBodyRequested, sdTyping, varsDl>>

\* Twilio messages.create / sendMessageWeb settles
SdBackend(ok) ==
  /\ sdPc = "backend"
  /\ SdFinish(IF ok THEN "sent" ELSE SendFailure(sdProv))
  /\ UNCHANGED <<sdProv, sdVersion, sdInit, sdMedia, sdMaxMedia, sdRequests,
                 sdContentLength, sdBodyRequested, sdTyping, varsDl>>

\* resolveEntity settles: sendTextMessage goes on to sendMessage,
\* sendMediaMessage picks the file source
SdResolve(ok) ==
  /\ sdPc = "resolve"
  /\ IF ~ok \/ sdMedia.kind = "neither"
     THEN SdFinish(SendFailure(sdProv)) /\ UNCHANGED sdRequests
     ELSE /\ UNCHANGED sdResult
          /\ IF sdMedia.kind = "url"
             THEN IF SendsHead(sdVersion)
                  THEN /\ sdPc' = "head"
                       /\ sdRequests' = sdRequests \cup {"HEAD"}
                  ELSE /\ sdPc' = "get"
                       /\ sdRequests' = sdRequests \cup {"GET"}
             ELSE /\ sdPc' = "sendFile"
                  /\ sdRequests' = sdRequests \cup {"send"}
  /\ sdBodyRequested' = (sdBodyRequested \/ sdPc' = "get")
  /\ UNCHANGED <<sdProv, sdVersion, sdInit, sdMedia, sdMaxMedia,
                 sdContentLength, sdTyping, varsDl>>

\* the HEAD request of part_007 settles: a rejection propagates, a
\* Content-Length above the limit throws, otherwise fetch(media.url)
SdHead(ok, contentLength) ==
  /\ sdPc = "head"
  /\ sdVersion = "part_007"
  /\ sdContentLength' = IF ok THEN contentLength ELSE sdContentLength
  /\ IF ~ok \/ HeadRejects(sdVersion, contentLength, sdMaxMedia)
     THEN SdFinish("threw") /\ UNCHANGED <<sdRequests, sdBodyRequested>>
     ELSE /\ sdPc' = "get"
          /\ sdRequests' = sdRequests \cup {"GET"}
          /\ sdBodyRequested' = TRUE
          /\ UNCHANGED sdResult
  /\ UNCHANGED <<sdProv, sdVersion, sdInit, sdMedia, sdMaxMedia, sdTyping,
                 varsDl>>

\* fetch(media.url) and response.arrayBuffer() settle
SdGet(ok) ==
  /\ sdPc = "get"
  /\ IF ok
     THEN /\ sdPc' = "sendFile"
          /\ sdRequests' = sdRequests \cup {"send"}
          /\ UNCHANGED sdResult
     ELSE SdFinish("threw") /\ UNCHANGED sdRequests
  /\ UNCHANGED <<sdProv, sdVersion, sdInit, sdMedia, sdMaxMedia,
                 sdContentLength, sdBodyRequested, sdTyping, varsDl>>

\* client.sendMessage / client.sendFile settles (buffer and in-memory paths)
SdSendFile(ok) ==
  /\ sdPc = "sendFile"
  /\ dlPc # "returned"
  /\ SdFinish(IF ok THEN "sent" ELSE SendFailure(sdProv))
  /\ UNCHANGED <<sdProv, sdVersion, sdInit, sdMedia, sdMaxMedia, sdRequests,
                 sdContentLength, sdBodyRequested, sdTyping, varsDl>>

\* the HEAD request of the streaming sendMediaMessage settles: a rejected
\* HEAD is only warned about, a Content-Length above maxMediaSize throws,
\* otherwise streamDownloadToTemp(media.url, maxMediaSize) is called
SdHeadStreaming(ok, contentLength) ==
  /\ sdPc = "head"
  /\ sdVersion = "streaming"
  /\ sdContentLength' = IF ok THEN contentLength ELSE sdContentLength
  /\ IF ok /\ HeadRejects(sdVersion, contentLength, sdMaxMedia)
     THEN /\ SdFinish("threw")
          /\ UNCHANGED <<sdRequests, sdBodyRequested, varsDl>>
     ELSE /\ sdPc' = "download"
          /\ sdRequests' = sdRequests \cup {"GET"}
          /\ sdBodyRequested' = TRUE
          /\ DlCall(sdMaxMedia)
          /\ UNCHANGED sdResult
  /\ UNCHANGED <<sdProv, sdVersion, sdInit, sdMedia, sdMaxMedia, sdTyping>>

\* streamDownloadToTemp settles: its error propagates, its handle's
\* tempPath goes to sendFile
SdDownloadDone ==
  /\ sdPc = "download"
  /\ dlPc \in {"returned", "threw"}
  /\ IF dlPc = "threw"
     THEN SdFinish("threw") /\ UNCHANGED sdRequests
     ELSE /\ sdPc' = "sendFile"
          /\ sdRequests' = sdRequests \cup {"send"}
          /\ UNCHANGED sdResult
  /\ UNCHANGED <<sdProv, sdVersion, sdInit, sdMedia, sdMaxMedia,
                 sdContentLength, sdBodyRequested, sdTyping, varsDl>>

\* sendFile of the downloaded file settles, and the release step
SdSendFileStreaming(ok, rmOk) ==
  /\ sdPc = "sendFile"
  /\ dlPc = "returned"
  /\ SdFinish(IF ok THEN "sent" ELSE SendFailure(sdProv))
  /\ IF CleanupAfterSend(ok)
     THEN /\ rmOk \in RmOutcomes(dlFile)
          /\ CleanupEffect(rmOk)
     ELSE /\ rmOk
          /\ UNCHANGED <<dlFile, dlRmFailed, dlCleanups, dlCleanupReturned>>
  /\ UNCHANGED <<dlPc, dlMaxSize, dlTotal, dlChunks, dlError>>
  /\ UNCHANGED <<sdProv, sdVersion, sdInit, sdMedia, sdMaxMedia, sdRequests,
                 sdContentLength, sdBodyRequested, sdTyping>>

\* sendTyping(to): Twilio's is empty; Web's throws without a socket and
\* swallows the error of sendPresenceUpdate; Telegram's throws without a
\* client and lets the error of sendTypingIndicator escape
SendTypingOutcome(prov, init, backendOk) ==
  CASE prov = "wa-twilio" -> "ok"
    [] prov = "wa-web" -> IF ~init THEN "threw" ELSE "ok"
    [] OTHER -> IF ~init \/ ~backendOk THEN "threw" ELSE "ok"

\* one call of sendTyping
SdSendTyping(prov, init, backendOk) ==
  /\ sdTyping' = [prov |-> prov, init |-> init, backendOk |-> backendOk,
                  outcome |-> SendTypingOutcome(prov, init, backendOk)]
  /\ UNCHANGED <<sdProv, sdVersion, sdInit, sdMedia, sdMaxMedia, sdPc,
                 sdResult, sdRequests, sdContentLength, sdBodyRequested,
                 varsDl>>

InitSd ==
  /\ sdProv = "none"
  /\ sdVersion = "none"
  /\ sdInit = FALSE
  /\ sdMedia = NoMedia
  /\ sdMaxMedia = TelegramDefaultMax
  /\ sdPc = "idle"
  /\ sdResult = "none"
  /\ sdRequests = {}
  /\ sdContentLength = 0
  /\ sdBodyRequested = FALSE
  /\ sdTyping = [prov |-> "none", init |-> FALSE, backendOk |-> FALSE,
                 outcome |-> "none"]

MediaValues ==
  {NoMedia} \cup [kind : MediaKinds \ {"none"}, size : 1..(MaxLimit + 1)]

NextSd ==
  \/ \E prov \in Kinds, version \in OutboundVersions, init \in BOOLEAN,
        media \in MediaValues, maxMedia \in MaxMediaSizes :
       SdSend(prov, version, init, media, maxMedia)
  \/ \E ok \in BOOLEAN : SdBackend(ok)
  \/ \E ok \in BOOLEAN : SdResolve(ok)
  \/ \E ok \in BOOLEAN, contentLength \in 0..(MaxLimit + 1) :
       SdHead(ok, contentLength)
  \/ \E ok \in BOOLEAN : SdGet(ok)
  \/ \E ok \in BOOLEAN : SdSendFile(ok)
  \/ \E ok \in BOOLEAN, contentLength \in 0..(MaxLimit + 1) :
       SdHeadStreaming(ok, contentLength)
  \/ SdDownloadDone
  \/ \E ok \in BOOLEAN, rmOk \in BOOLEAN : SdSendFileStreaming(ok, rmOk)
  \/ \E prov \in Kinds, init \in BOOLEAN, backendOk \in BOOLEAN :
       SdSendTyping(prov, init, backendOk)

\* ------------------------------------------------------------------------
\* WhatsApp Web provider: WebProvider
\* ------------------------------------------------------------------------
Instances == 1..MaxInstances

\* The fields stopListening() reads and writes, with the number of close()
\* calls made, whether a call threw, and whether the call is at its await.
WbStopFields ==
  [listening |-> wbListening, listener |-> wbListener, closes |-> 0,
   threw |-> FALSE, awaiting |-> FALSE]

\* The values the fields of a WebProvider can hold between calls.
WbStopFieldValues ==
  [listening : BOOLEAN, listener : 0..MaxInstances, closes : {0},
   threw : {FALSE}, awaiting : {FALSE}]

\* stopListening() up to its await: nothing when not listening; otherwise
\* close() is called on the listener instance, if there is one
WbStopBegun(f) ==
  IF ~f.listening THEN f
  ELSE IF f.listener # 0
       THEN [f EXCEPT !.closes = @ + 1, !.awaiting = TRUE]
       ELSE [f EXCEPT !.listening = FALSE]

\* stopListening() after close() has settled (its error is caught)
WbStopResumed(f) ==
  [f EXCEPT !.listener = 0, !.listening = FALSE, !.awaiting = FALSE]

\* one whole call of stopListening() that no other call overlaps
WbStopped(f) ==
  LET b == WbStopBegun(f)
  IN IF b.awaiting THEN WbStopResumed(b) ELSE b

WbInFlight == BagCardinality(wbCalls)

\* initialize(config) up to await createWaSocket(...)
WbInitialize(kindOk) ==
  /\ WbInFlight < MaxWebCalls
  /\ IF kindOk
     THEN /\ wbConfig' = TRUE
          /\ wbCalls' = wbCalls (+) SetToBag({[op |-> "initialize", inst |-> 0]})
     ELSE UNCHANGED <<wbConfig, wbCalls>>
  /\ UNCHANGED <<wbSocket, wbHandler, wbListening, wbListener, wbInstances,
                 wbCloses>>
  /\ UNCHANGED wbStartError

\* createWaSocket settles
WbSocketCreated(c, ok) ==
  /\ c.op = "initialize"
  /\ wbCalls' = wbCalls (-) SetToBag({c})
  /\ wbSocket' = IF ok THEN TRUE ELSE wbSocket
  /\ UNCHANGED <<wbConfig, wbHandler, wbListening, wbListener, wbInstances,
                 wbCloses>>
  /\ UNCHANGED wbStartError

\* onMessage(handler)
WbOnMessage ==
  /\ wbHandler' = TRUE
  /\ UNCHANGED <<wbConfig, wbSocket, wbListening, wbListener, wbInstances,
                 wbCloses, wbCalls>>
  /\ UNCHANGED wbStartError

\* startListening(): the error it throws or, when it throws none, the call
\* up to await monitorWebInbox(...)
WbStartListening ==
  LET error == StartListeningError(wbConfig, wbHandler, wbListening)
  IN /\ wbStartError' = error
     /\ IF error # "none"
        THEN UNCHANGED wbCalls
        ELSE /\ WbInFlight < MaxWebCalls
             /\ wbCalls' = wbCalls (+)
                             SetToBag({[op |-> "startListening", inst |-> 0]})
     /\ UNCHANGED <<wbConfig, wbSocket, wbHandler, wbListening, wbListener,
                    wbInstances, wbCloses>>

\* monitorWebInbox settles: the instance is stored and listening set
WbStartDone(c, ok) ==
  /\ c.op = "startListening"
  /\ wbCalls' = wbCalls (-) SetToBag({c})
  /\ IF ok
     THEN /\ wbInstances < MaxInstances
          /\ wbInstances' = wbInstances + 1
          /\ wbListener' = wbInstances + 1
          /\ wbListening' = TRUE
     ELSE UNCHANGED <<wbInstances, wbListener, wbListening>>
  /\ UNCHANGED <<wbConfig, wbSocket, wbHandler, wbCloses>>
  /\ UNCHANGED wbStartError

\* stopListening() as called by `op`, up to its await or, when it does not
\* await, to its end
WbStopCall(op) ==
  LET b == WbStopBegun(WbStopFields)
  IN /\ wbListening' = b.listening
     /\ wbListener' = b.listener
     /\ IF b.awaiting
        THEN /\ wbCloses' = [wbCloses EXCEPT ![wbListener] = @ + 1]
             /\ wbCalls' = wbCalls (+)
                             SetToBag({[op |-> op, inst |-> wbListener]})
        ELSE UNCHANGED <<wbCloses, wbCalls>>

\* stopListening()
WbStopListening ==
  /\ WbInFlight < MaxWebCalls
  /\ WbStopCall("stopListening")
  /\ UNCHANGED <<wbConfig, wbSocket, wbHandler, wbInstances>>
  /\ UNCHANGED wbStartError

\* close() settles for a stopListening() call
WbStopEnd(c) ==
  /\ c.op = "stopListening"
  /\ wbCalls' = wbCalls (-) SetToBag({c})
  /\ LET g == WbStopResumed(WbStopFields)
     IN wbListener' = g.listener /\ wbListening' = g.listening
  /\ UNCHANGED <<wbConfig, wbSocket, wbHandler, wbInstances, wbCloses>>
  /\ UNCHANGED wbStartError

\* disconnect(): stopListening() when listening, then the socket and the
\* config are cleared
WbDisconnect ==
  /\ WbInFlight < MaxWebCalls
  /\ IF wbListening /\ wbListener # 0
     THEN /\ WbStopCall("disconnect")
          /\ UNCHANGED <<wbSocket, wbConfig>>
     ELSE /\ wbListening' = FALSE
          /\ wbSocket' = FALSE
          /\ wbConfig' = FALSE
          /\ UNCHANGED <<wbListener, wbCloses, wbCalls>>
  /\ UNCHANGED <<wbHandler, wbInstances>>
  /\ UNCHANGED wbStartError

\* close() settles for the stopListening() of a disconnect(): the rest of
\* stopListening and of disconnect
WbDisconnectEnd(c) ==
  /\ c.op = "disconnect"
  /\ wbCalls' = wbCalls (-) SetToBag({c})
  /\ LET g == WbStopResumed(WbStopFields)
     IN wbListener' = g.listener /\ wbListening' = g.listening
  /\ wbSocket' = FALSE
  /\ wbConfig' = FALSE
  /\ UNCHANGED <<wbHandler, wbInstances, wbCloses>>
  /\ UNCHANGED wbStartError

InitWb ==
  /\ wbConfig = FALSE
  /\ wbSocket = FALSE
  /\ wbHandler = FALSE
  /\ wbListening = FALSE
  /\ wbListener = 0
  /\ wbInstances = 0
  /\ wbCloses = [i \in Instances |-> 0]
  /\ wbCalls = EmptyBag
  /\ wbStartError = "none"

NextWb ==
  \/ \E kindOk \in BOOLEAN : WbInitialize(kindOk)
  \/ \E c \in BagToSet(wbCalls), ok \in BOOLEAN : WbSocketCreated(c, ok)
  \/ WbOnMessage
  \/ WbStartListening
  \/ \E c \in BagToSet(wbCalls), ok \in BOOLEAN : WbStartDone(c, ok)
  \/ WbStopListening
  \/ \E c \in BagToSet(wbCalls) : WbStopEnd(c)
  \/ WbDisconnect
  \/ \E c \in BagToSet(wbCalls) : WbDisconnectEnd(c)

\* ------------------------------------------------------------------------
\* Delivery status: Provider.getDeliveryStatus
\* ------------------------------------------------------------------------
\* message.status of the backend; "none" stands for a missing status
BackendStatuses ==
  {"queued", "sending", "sent", "delivered", "read", "failed", "undelivered",
   "canceled", "accepted", "scheduled", "none"}

MessageValues ==
  [status : BackendStatuses, errorCode : BOOLEAN, dateUpdated : BOOLEAN]

NoMessage == [status |-> "none", errorCode |-> FALSE, dateUpdated |-> FALSE]

NoResult ==
  [status |-> "none", error |-> "none", timestamp |-> "none", threw |-> FALSE]

\* const status = message.status ?? "unknown", then the if / else-if chain
NormalizeStatus(backendStatus) ==
  LET status == IF backendStatus = "none" THEN "unknown" ELSE backendStatus
  IN IF status \in {"delivered", "sent"} THEN "delivered"
     ELSE IF status = "read" THEN "read"
     ELSE IF status \in {"failed", "undelivered", "canceled"} THEN "failed"
     ELSE "sent"

\* The DeliveryStatus built from a fetched message.
StatusOfMessage(message) ==
  [status |-> NormalizeStatus(message.status),
   error |-> IF message.errorCode THEN "code: message" ELSE "none",
   timestamp |-> IF message.dateUpdated THEN "dateUpdated" ELSE "now",
   threw |-> FALSE]

\* The DeliveryStatus of a provider without delivery tracking, and of a
\* failed fetch.
UnknownStatus(error) ==
  [status |-> "unknown", error |-> error, timestamp |-> "now",
   threw |-> FALSE]

\* getDeliveryStatus(messageId) up to its await: Telegram and Web return
\* unknown at once; Twilio throws without a client and otherwise fetches
GsCall(kind, init, message) ==
  /\ gsPc \in {"idle", "done"}
  /\ gsKind' = kind
  /\ gsInit' = init
  /\ IF kind # "wa-twilio"
     THEN /\ gsPc' = "done"
          /\ gsMessage' = NoMessage
          /\ gsResult' = UnknownStatus("none")
     ELSE IF ~init
     THEN /\ gsPc' = "done"
          /\ gsMessage' = NoMessage
          /\ gsResult' = [NoResult EXCEPT !.threw = TRUE]
     ELSE /\ gsPc' = "fetching"
          /\ gsMessage' = message
          /\ gsResult' = NoResult

\* client.messages(messageId).fetch() settles
GsFetched(ok) ==
  /\ gsPc = "fetching"
  /\ gsPc' = "done"
  /\ gsResult' = IF ok THEN StatusOfMessage(gsMessage)
                 ELSE UnknownStatus("fetch error")
  /\ UNCHANGED <<gsKind, gsInit, gsMessage>>

InitGs ==
  /\ gsKind = "wa-twilio"
  /\ gsInit = FALSE
  /\ gsPc = "idle"
  /\ gsMessage = NoMessage
  /\ gsResult = NoResult

NextGs ==
  \/ \E kind \in Kinds, init \in BOOLEAN, message \in MessageValues :
       GsCall(kind, init, message)
  \/ \E ok \in BOOLEAN : GsFetched(ok)

\* ------------------------------------------------------------------------
\* Telegram login and logout: loginTelegram, logoutTelegram, session.ts
\* ------------------------------------------------------------------------
SessionVersions == {"two-path", "legacy-only"}

Files == [preferred |-> ssPreferred, legacy |-> ssLegacy]

\* loadSession(): the two-path version reads the preferred file when it
\* exists and the legacy file otherwise; the legacy-only version reads the
\* legacy file.  FALSE: loadSession returns null.
SessionFound(version, files) ==
  IF version = "two-path"
  THEN files.preferred # "none" \/ files.legacy # "none"
  ELSE files.legacy # "none"

\* saveSession(session): writeFile to the preferred path (two-path version)
\* or to the legacy path
SaveSession(version, files) ==
  IF version = "two-path"
  THEN [files EXCEPT !.preferred = "new"]
  ELSE [files EXCEPT !.legacy = "new"]

\* A clearSession that unlinks the preferred file only.
ClearSessionPreferredOnly(version, files, ok1, ok2) ==
  [files |-> IF ok1 THEN [files EXCEPT !.preferred = "none"] ELSE files,
   threw |-> ~ok1]

\* clearSession(): unlink each path in turn, ignoring ENOENT; another error
\* (ok1 / ok2 FALSE, possible only for a file that exists) is thrown and
\* ends the loop.  The legacy-only version unlinks the legacy file.
ClearSession(version, files, ok1, ok2) ==
  IF version = "two-path"
  THEN IF files.preferred # "none" /\ ~ok1
       THEN [files |-> files, threw |-> TRUE]
       ELSE IF files.legacy # "none" /\ ~ok2
            THEN [files |-> [files EXCEPT !.preferred = "none"],
                  threw |-> TRUE]
            ELSE [files |-> [preferred |-> "none", legacy |-> "none"],
                  threw |-> FALSE]
  ELSE IF files.legacy # "none" /\ ~ok2
       THEN [files |-> files, threw |-> TRUE]
       ELSE [files |-> [files EXCEPT !.legacy = "none"], threw |-> FALSE]

\* A try block that goes on to its next step after a failed one.
NextStepIgnoringFailure(op, pc, ok) ==
  CASE pc = "start" -> "getMe"
    [] pc = "getMe" -> "save"
    [] pc = "connect" -> "revoke"
    [] pc = "revoke" -> "clear"
    [] OTHER -> "disconnect"

\* The try / catch / finally of loginTelegram and logoutTelegram: a step
\* that fails leads to the catch block and then to the finally block
NextStep(op, pc, ok) ==
  IF ~ok THEN "disconnect"
  ELSE CASE pc = "start" -> "getMe"
         [] pc = "getMe" -> "save"
         [] pc = "connect" -> "revoke"
         [] pc = "revoke" -> "clear"
         [] OTHER -> "disconnect"

\* one step of the try block has settled
LgStep(pc, ok) ==
  /\ lgPc' = NextStep(lgOp, pc, ok)
  /\ lgFailed' = IF ok \/ lgFailed # "none" THEN lgFailed ELSE pc
  /\ lgPassed' = IF ok THEN lgPassed \cup {pc} ELSE lgPassed

\* The program is installed: the version of session.ts it is built from,
\* and the legacy token file an earlier installation may have left.
SsInstall(version, legacy) ==
  /\ ssVersion = "none"
  /\ ssVersion' = version
  /\ ssLegacy' = legacy
  /\ UNCHANGED <<ssPreferred, lgOp, lgPc, lgFailed, lgPassed, lgBefore,
                 lgRevoked, lgOutcome>>

\* loginTelegram(...) / logoutTelegram(...) up to await loadSession()
LgCall(op) ==
  /\ ssVersion # "none"
  /\ lgPc \in {"idle", "done"}
  /\ lgOp' = op
  /\ lgPc' = "load"
  /\ lgFailed' = "none"
  /\ lgPassed' = {}
  /\ lgBefore' = Files
  /\ lgRevoked' = FALSE
  /\ lgOutcome' = "none"
  /\ UNCHANGED <<ssVersion, ssPreferred, ssLegacy>>

\* loadSession settles: an error other than ENOENT escapes; logoutTelegram
\* returns when there is no session
LgLoaded(ok) ==
  /\ lgPc = "load"
  /\ IF ~ok
     THEN /\ lgPc' = "done"
          /\ lgFailed' = "load"
          /\ lgOutcome' = "threw"
     ELSE IF lgOp = "logout" /\ ~SessionFound(ssVersion, Files)
     THEN /\ lgPc' = "done"
          /\ lgOutcome' = "noSession"
          /\ UNCHANGED lgFailed
     ELSE /\ lgPc' = "create"
          /\ UNCHANGED <<lgFailed, lgOutcome>>
  /\ UNCHANGED <<ssVersion, ssPreferred, ssLegacy, lgOp, lgPassed, lgBefore,
                 lgRevoked>>

\* createTelegramClient settles (outside the try block)
LgCreated(ok) ==
  /\ lgPc = "create"
  /\ IF ok
     THEN /\ lgPc' = IF lgOp = "login" THEN "start" ELSE "connect"
          /\ UNCHANGED <<lgFailed, lgOutcome>>
     ELSE /\ lgPc' = "done"
          /\ lgFailed' = "create"
          /\ lgOutcome' = "threw"
  /\ UNCHANGED <<ssVersion, ssPreferred, ssLegacy, lgOp, lgPassed, lgBefore,
                 lgRevoked>>

\* client.start settles, then the client.connected check
LgStarted(ok, connected) ==
  /\ lgPc = "start"
  /\ LgStep("start", ok /\ connected)
  /\ UNCHANGED <<ssVersion, ssPreferred, ssLegacy, lgOp, lgBefore, lgRevoked,
                 lgOutcome>>

\* client.getMe settles
LgGotMe(ok) ==
  /\ lgPc = "getMe"
  /\ LgStep("getMe", ok)
  /\ UNCHANGED <<ssVersion, ssPreferred, ssLegacy, lgOp, lgBefore, lgRevoked,
                 lgOutcome>>

\* saveSession settles
LgSaved(ok) ==
  /\ lgPc = "save"
  /\ LgStep("save", ok)
  /\ LET f == IF ok THEN SaveSession(ssVersion, Files) ELSE Files
     IN ssPreferred' = f.preferred /\ ssLegacy' = f.legacy
  /\ UNCHANGED <<ssVersion, lgOp, lgBefore, lgRevoked, lgOutcome>>

\* client.connect settles (logout)
LgConnected(ok) ==
  /\ lgPc = "connect"
  /\ LgStep("connect", ok)
  /\ UNCHANGED <<ssVersion, ssPreferred, ssLegacy, lgOp, lgBefore, lgRevoked,
                 lgOutcome>>

\* client.invoke(new Api.auth.LogOut()) settles
LgLogOutInvoked(ok) ==
  /\ lgPc = "revoke"
  /\ LgStep("revoke", ok)
  /\ lgRevoked' = ok
  /\ UNCHANGED <<ssVersion, ssPreferred, ssLegacy, lgOp, lgBefore, lgOutcome>>

\* clearSession settles
LgCleared(ok1, ok2) ==
  /\ lgPc = "clear"
  /\ LET c == ClearSession(ssVersion, Files, ok1, ok2)
     IN /\ LgStep("clear", ~c.threw)
        /\ ssPreferred' = c.files.preferred
        /\ ssLegacy' = c.files.legacy
  /\ UNCHANGED <<ssVersion, lgOp, lgBefore, lgRevoked, lgOutcome>>

\* the finally block: client.disconnect settles; after a failed step the
\* catch block has called runtime.exit(1)
LgDisconnected(ok) ==
  /\ lgPc = "disconnect"
  /\ lgPc' = "done"
  /\ lgOutcome' = IF lgFailed # "none" THEN "exit"
                  ELSE IF ok THEN "ok" ELSE "threw"
  /\ lgFailed' = IF lgFailed = "none" /\ ~ok THEN "disconnect" ELSE lgFailed
  /\ UNCHANGED <<ssVersion, ssPreferred, ssLegacy, lgOp, lgPassed, lgBefore,
                 lgRevoked>>

InitLg ==
  /\ ssVersion = "none"
  /\ ssPreferred = "none"
  /\ ssLegacy = "none"
  /\ lgOp = "none"
  /\ lgPc = "idle"
  /\ lgFailed = "none"
  /\ lgPassed = {}
  /\ lgBefore = [preferred |-> "none", legacy |-> "none"]
  /\ lgRevoked = FALSE
  /\ lgOutcome = "none"

NextLg ==
  \/ \E version \in SessionVersions, legacy \in {"none", "old"} :
       SsInstall(version, legacy)
  \/ \E op \in {"login", "logout"} : LgCall(op)
  \/ \E ok \in BOOLEAN : LgLoaded(ok)
  \/ \E ok \in BOOLEAN : LgCreated(ok)
  \/ \E ok \in BOOLEAN, connected \in BOOLEAN : LgStarted(ok, connected)
  \/ \E ok \in BOOLEAN : LgGotMe(ok)
  \/ \E ok \in BOOLEAN : LgSaved(ok)
  \/ \E ok \in BOOLEAN : LgConnected(ok)
  \/ \E ok \in BOOLEAN : LgLogOutInvoked(ok)
  \/ \E ok1 \in BOOLEAN, ok2 \in BOOLEAN : LgCleared(ok1, ok2)
  \/ \E ok \in BOOLEAN : LgDisconnected(ok)

\* ------------------------------------------------------------------------
\* Identifiers and session keys: normalizeE164, deriveSessionKey
\* ------------------------------------------------------------------------
\* Identifiers are sequences of characters; the prefixes "whatsapp:" and
\* "telegram:" and the group suffix "@g.us" are written as one element.
DigitChars == {"1"}
IdChars ==
  {"whatsapp:", "telegram:", "@g.us", "+", " ", "-", "@", "a"} \cup DigitChars

FromValues == SeqsUpTo(IdChars, MaxIdLen)

Chars(id) == {id[k] : k \in DOMAIN id}

\* A normalizeE164 that always puts a "+" in front.
NormalizeE164AlwaysPrefixes(number) ==
  LET withoutPrefix ==
        Trim(IF number # <<>> /\ Head(number) = "whatsapp:"
             THEN Tail(number) ELSE number)
      digits == SelectSeq(withoutPrefix,
                          LAMBDA c : c \in DigitChars \cup {"+"})
  IN <<"+">> \o digits

\* normalizeE164(number): strip a leading "whatsapp:", trim, drop every
\* character that is neither a digit nor "+", and put a "+" in front unless
\* there is one
NormalizeE164(number) ==
  LET withoutPrefix ==
        Trim(IF number # <<>> /\ Head(number) = "whatsapp:"
             THEN Tail(number) ELSE number)
      digits == SelectSeq(withoutPrefix,
                          LAMBDA c : c \in DigitChars \cup {"+"})
  IN IF digits # <<>> /\ Head(digits) = "+"
     THEN <<"+">> \o Tail(digits)
     ELSE <<"+">> \o digits

\* A deriveSessionKey that normalises every sender as a phone number.
DeriveSessionKeyNoNamespace(scope, from) ==
  IF scope = "global" THEN <<"global">>
  ELSE IF from = <<>> THEN <<"unknown">>
  ELSE NormalizeE164(from)

\* deriveSessionKey(scope, ctx): global scope gives "global"; an absent
\* sender "unknown"; a "telegram:" identifier is kept; a group JID gets the
\* "group:" prefix; every other sender is normalised to E.164
DeriveSessionKey(scope, from) ==
  IF scope = "global" THEN <<"global">>
  ELSE IF from = <<>> THEN <<"unknown">>
  ELSE IF Head(from) = "telegram:" THEN from
  ELSE IF "@g.us" \in Chars(from) THEN <<"group:">> \o from
  ELSE NormalizeE164(from)

\* A Telegram sender identifier: the namespace prefix and a user.
IsTelegramSender(from) == Len(from) >= 2 /\ Head(from) = "telegram:"

\* A WhatsApp phone-number sender: a number with at least one digit, in any
\* formatting, with or without the "whatsapp:" prefix.
IsWhatsAppPhone(from) ==
  LET body == IF from # <<>> /\ Head(from) = "whatsapp:"
              THEN Tail(from) ELSE from
  IN /\ Chars(body) \subseteq DigitChars \cup {"+", " ", "-"}
     /\ Chars(body) \cap DigitChars # {}

WhatsAppSenders == {f \in FromValues : IsWhatsAppPhone(f)}

\* deriveSessionKey(scope, { From: from })
SkDerive(scope, from) ==
  /\ skScope = "none"
  /\ skScope' = scope
  /\ skFrom' = from
  /\ skKey' = DeriveSessionKey(scope, from)

InitSk ==
  /\ skScope = "none"
  /\ skFrom = <<>>
  /\ skKey = <<>>

NextSk ==
  /\ skScope = "none"
  /\ \E scope \in {"global", "per-sender"}, from \in FromValues :
       SkDerive(scope, from)

\* ------------------------------------------------------------------------
\* Auto-reply engine: agent invocations
\* ------------------------------------------------------------------------
Inbounds == 1..MaxInbound

\* The sessions of a WhatsApp sender and of a Telegram sender.
AgSessions ==
  {DeriveSessionKey("per-sender", from) :
     from \in {<<"+", "1">>, <<"telegram:", "1">>}}

\* An engine that takes every session's lock to be free.
LockAlwaysFree(lock, key) == TRUE

\* The per-session lock of the key is held by no handler.
LockFree(lock, key) == lock[key] = 0

\* The agent invocations in flight for a session.
InFlight(key) == {i \in Inbounds : agPc[i] = "invoking" /\ agSession[i] = key}

\* A provider hands an inbound message to the engine's handler, which
\* derives the session key and asks for the session's lock.
AgInbound(i, from) ==
  /\ agPc[i] = "none"
  /\ \A j \in Inbounds : j < i => agPc[j] # "none"
  /\ agSession' = [agSession EXCEPT ![i] = DeriveSessionKey("per-sender", from)]
  /\ agPc' = [agPc EXCEPT ![i] = "waiting"]
  /\ UNCHANGED agLock

\* The handler acquires the per-session lock and invokes the agent.
AgAcquire(i) ==
  /\ agPc[i] = "waiting"
  /\ LockFree(agLock, agSession[i])
  /\ agLock' = [agLock EXCEPT ![agSession[i]] = i]
  /\ agPc' = [agPc EXCEPT ![i] = "invoking"]
  /\ UNCHANGED agSession

\* The reply completes, or the agent fails; either way the lock is released.
AgReplyDone(i, ok) ==
  /\ agPc[i] = "invoking"
  /\ agPc' = [agPc EXCEPT ![i] = IF ok THEN "replied" ELSE "failed"]
  /\ agLock' = [agLock EXCEPT ![agSession[i]] = 0]
  /\ UNCHANGED agSession

InitAg ==
  /\ agSession = [i \in Inbounds |-> <<>>]
  /\ agPc = [i \in Inbounds |-> "none"]
  /\ agLock = [key \in AgSessions |-> 0]

NextAg ==
  \/ \E i \in Inbounds, from \in {<<"whatsapp:", "+", "1">>, <<"telegram:", "1">>} :
       AgInbound(i, from)
  \/ \E i \in Inbounds : AgAcquire(i)
  \/ \E i \in Inbounds, ok \in BOOLEAN : AgReplyDone(i, ok)

\* ------------------------------------------------------------------------
\* Identifier normalisation
\* ------------------------------------------------------------------------
AllowFromProviders == {"telegram", "web", "twilio"}

EntryValues == SeqsUpTo(IdChars \cup {"A"}, MaxIdLen)

\* A normalizeAllowFromEntry that puts "@" in front of every user name.
NormalizeAllowFromEntryAlwaysAt(entry, provider) ==
  LET trimmed == ToLowerCase(Trim(entry))
      withoutPrefix == IF trimmed # <<>> /\ Head(trimmed) = "telegram:"
                       THEN Tail(trimmed) ELSE trimmed
  IN IF trimmed = <<>> THEN <<>>
     ELSE IF provider = "telegram"
          THEN <<"telegram:", "@">> \o withoutPrefix
          ELSE NormalizeE164(entry)

\* normalizeAllowFromEntry(entry, provider): an entry that is blank gives ""
\* (<<>>); a Telegram entry is trimmed and lower-cased, loses a leading
\* "telegram:", gets "@" in front unless it has one or is all digits, and
\* gets the "telegram:" prefix; any other entry goes through normalizeE164
NormalizeAllowFromEntry(entry, provider) ==
  LET trimmed == ToLowerCase(Trim(entry))
      withoutPrefix == IF trimmed # <<>> /\ Head(trimmed) = "telegram:"
                       THEN Tail(trimmed) ELSE trimmed
      username ==
        IF withoutPrefix # <<>> /\ Head(withoutPrefix) = "@"
        THEN withoutPrefix
        ELSE IF withoutPrefix # <<>> /\ Chars(withoutPrefix) \subseteq DigitChars
             THEN withoutPrefix
             ELSE <<"@">> \o withoutPrefix
  IN IF trimmed = <<>> THEN <<>>
     ELSE IF provider = "telegram" THEN <<"telegram:">> \o username
          ELSE NormalizeE164(entry)

\* The canonical form of a WhatsApp identifier: "+" and then digits only.
IsE164(id) ==
  /\ id # <<>>
  /\ Head(id) = "+"
  /\ Chars(Tail(id)) \subseteq DigitChars

\* normalizeAllowFromEntry(entry, provider)
NmNormalize(entry, provider) ==
  /\ nmPc = "idle"
  /\ nmPc' = "once"
  /\ nmProvider' = provider
  /\ nmEntry' = entry
  /\ nmOnce' = NormalizeAllowFromEntry(entry, provider)
  /\ UNCHANGED nmTwice

\* normalizeAllowFromEntry(result, provider) on the result of the first call
NmNormalizeAgain ==
  /\ nmPc = "once"
  /\ nmPc' = "twice"
  /\ nmTwice' = NormalizeAllowFromEntry(nmOnce, nmProvider)
  /\ UNCHANGED <<nmProvider, nmEntry, nmOnce>>

InitNm ==
  /\ nmProvider = "none"
  /\ nmEntry = <<>>
  /\ nmPc = "idle"
  /\ nmOnce = <<>>
  /\ nmTwice = <<>>

NextNm ==
  \/ /\ nmPc = "idle"
     /\ \E entry \in EntryValues, provider \in AllowFromProviders :
          NmNormalize(entry, provider)
  \/ NmNormalizeAgain

\* ------------------------------------------------------------------------
\* Environment
\* ------------------------------------------------------------------------
\* env.ts exists as the validating version and as a stub.
EnvVersions == {"validating", "stub"}

EnvProviders == {"telegram", "twilio", "all"}

\* process.env: for each variable whether it is set (to a non-empty value)
EnvValues ==
  [TWILIO_ACCOUNT_SID : BOOLEAN, TWILIO_WHATSAPP_FROM : BOOLEAN,
   TWILIO_AUTH_TOKEN : BOOLEAN, TWILIO_API_KEY : BOOLEAN,
   TWILIO_API_SECRET : BOOLEAN, TELEGRAM_API_ID : BOOLEAN,
   TELEGRAM_API_HASH : BOOLEAN]

\* TwilioEnvSchema / AllEnvSchema: the Twilio issues
TwilioIssues(val) ==
  \/ ~val.TWILIO_ACCOUNT_SID
  \/ ~val.TWILIO_WHATSAPP_FROM
  \/ val.TWILIO_API_KEY /\ ~val.TWILIO_API_SECRET
  \/ val.TWILIO_API_SECRET /\ ~val.TWILIO_API_KEY
  \/ ~val.TWILIO_AUTH_TOKEN /\ ~(val.TWILIO_API_KEY /\ val.TWILIO_API_SECRET)

\* TelegramEnvSchema / AllEnvSchema: the Telegram issue
TelegramIssues(val) ==
  \/ val.TELEGRAM_API_ID /\ ~val.TELEGRAM_API_HASH
  \/ ~val.TELEGRAM_API_ID /\ val.TELEGRAM_API_HASH

\* schema.safeParse(process.env) fails, the schema selected by provider
SchemaFails(provider, val) ==
  IF provider = "telegram" THEN TelegramIssues(val)
  ELSE IF provider = "twilio" THEN TwilioIssues(val)
  ELSE TwilioIssues(val) \/ TelegramIssues(val)

\* readEnv(runtime, provider): "aborted" when it reaches runtime.exit(1),
\* "returned" when it returns a configuration. The stub returns what it
\* finds.
ReadEnv(version, provider, val) ==
  IF version = "stub" THEN "returned"
  ELSE IF SchemaFails(provider, val) THEN "aborted"
  ELSE IF val.TWILIO_ACCOUNT_SID /\ val.TWILIO_WHATSAPP_FROM
       THEN IF val.TWILIO_API_KEY /\ val.TWILIO_API_SECRET THEN "returned"
            ELSE IF val.TWILIO_AUTH_TOKEN THEN "returned"
            ELSE IF provider # "telegram" THEN "aborted"
            ELSE "returned"
       ELSE IF provider \in {"twilio", "all"} THEN "aborted"
            ELSE "returned"

\* readEnv(runtime, provider)
EvReadEnv(version, provider, val) ==
  /\ evResult = "none"
  /\ evVersion' = version
  /\ evProvider' = provider
  /\ evEnv' = val
  /\ evResult' = ReadEnv(version, provider, val)

InitEv ==
  /\ evVersion = "none"
  /\ evProvider = "none"
  /\ evEnv = [TWILIO_ACCOUNT_SID |-> FALSE, TWILIO_WHATSAPP_FROM |-> FALSE,
              TWILIO_AUTH_TOKEN |-> FALSE, TWILIO_API_KEY |-> FALSE,
              TWILIO_API_SECRET |-> FALSE, TELEGRAM_API_ID |-> FALSE,
              TELEGRAM_API_HASH |-> FALSE]
  /\ evResult = "none"

NextEv ==
  \E version \in EnvVersions, provider \in EnvProviders, val \in EnvValues :
    EvReadEnv(version, provider, val)

\* ------------------------------------------------------------------------
\* Orphan sweep of the temp directory
\* ------------------------------------------------------------------------
\* DEFAULT_ORPHAN_TTL_MS, in hours
OrphanTtl == 1

\* The files a temp directory can hold: named like a download
\* (telegram-dl-<uuid>.tmp) or not, last modified so many hours ago.
TempFiles == [download : BOOLEAN, age : 0..MaxAge]

\* now - stat.mtimeMs > ttlMs
OlderThanTtl(file, ttl) == file.age > ttl

\* cleanOrphanedTempFiles() as TelegramProvider.initialize calls it, up to
\* the start of Promise.all: ensureTempDir may throw, which ends the sweep
\* in the catch block, and a failing readdir gives no entries
OsCall(files, mkdirOk, readdirOk) ==
  /\ osPc = "idle"
  /\ osBefore' = files
  /\ osDir' = files
  /\ osTodo' = IF mkdirOk /\ readdirOk THEN files ELSE {}
  /\ osPc' = IF mkdirOk /\ readdirOk /\ files # {} THEN "sweeping" ELSE "done"

\* The callback of entries.map for one file: a failing stat skips the file,
\* a file past the TTL is removed, a failing rm is ignored.
OsSweepFile(file, statOk, rmOk) ==
  /\ osPc = "sweeping"
  /\ file \in osTodo
  /\ osTodo' = osTodo \ {file}
  /\ osDir' = IF statOk /\ OlderThanTtl(file, OrphanTtl) /\ rmOk
               THEN osDir \ {file} ELSE osDir
  /\ osPc' = IF osTodo = {file} THEN "done" ELSE "sweeping"
  /\ UNCHANGED osBefore

InitOs ==
  /\ osPc = "idle"
  /\ osBefore = {}
  /\ osDir = {}
  /\ osTodo = {}

NextOs ==
  \/ \E files \in SUBSET TempFiles, mkdirOk, readdirOk \in BOOLEAN :
       OsCall(files, mkdirOk, readdirOk)
  \/ \E file \in TempFiles, statOk, rmOk \in BOOLEAN :
       OsSweepFile(file, statOk, rmOk)

\* ------------------------------------------------------------------------
\* Specifications
\* ------------------------------------------------------------------------
InitTw ==
  /\ twClient = FALSE
  /\ twConfig = FALSE
  /\ twHandler = FALSE
  /\ twListening = FALSE
  /\ twStopFn = FALSE
  /\ twPollIntervalId = 0
  /\ twTimers = {}
  /\ twSessions = 0
  /\ twLastSeen = [s \in Sessions |-> 0]
  /\ twPolls = EmptyBag
  /\ twStore = <<>>
  /\ twRecorded = 0
  /\ twLastCall = [sid |-> 0, seen |-> 0]
  /\ twLastIter = [how |-> "none", remaining |-> <<>>]
  /\ twStartError = "none"

NextTw ==
  \/ \E cfg \in {"wrongKind", "noAuth", "ok"} : TwInitialize(cfg)
  \/ TwOnMessage
  \/ TwStartListening
  \/ \E s \in Sessions : TwTick(s)
  \/ \E p \in BagToSet(twPolls) : TwFetchOk(p)
  \/ \E p \in BagToSet(twPolls) : TwFetchFail(p)
  \/ \E p \in BagToSet(twPolls) : TwHandlerOk(p)
  \/ \E p \in BagToSet(twPolls) : TwHandlerThrow(p)
  \/ TwStopListening
  \/ TwDisconnect
  \/ \E dir \in Directions : TwArrive(dir)
  \/ TwExpire

Init == InitTw /\ InitTg /\ InitRl /\ InitDl /\ InitSd /\ InitWb /\ InitGs /\ InitLg /\ InitSk /\ InitAg /\ InitNm /\ InitEv /\ InitOs

Next ==
  \/ NextTw /\ UNCHANGED <<varsTg, varsRl, varsDl, varsSd, varsWb, varsGs, varsLg, varsSk, varsAg, varsNm, varsEv, varsOs>>
  \/ NextTg /\ UNCHANGED <<varsTw, varsRl, varsDl, varsSd, varsWb, varsGs, varsLg, varsSk, varsAg, varsNm, varsEv, varsOs>>
  \/ NextRl /\ UNCHANGED <<varsTw, varsTg, varsDl, varsSd, varsWb, varsGs, varsLg, varsSk, varsAg, varsNm, varsEv, varsOs>>
  \/ NextDl /\ UNCHANGED <<varsTw, varsTg, varsRl, varsSd, varsWb, varsGs, varsLg, varsSk, varsAg, varsNm, varsEv, varsOs>>
  \/ NextSd /\ UNCHANGED <<varsTw, varsTg, varsRl, varsWb, varsGs, varsLg, varsSk, varsAg, varsNm, varsEv, varsOs>>
  \/ NextWb /\ UNCHANGED <<varsTw, varsTg, varsRl, varsDl, varsSd, varsGs, varsLg, varsSk, varsAg, varsNm, varsEv, varsOs>>
  \/ NextGs /\ UNCHANGED <<varsTw, varsTg, varsRl, varsDl, varsSd, varsWb, varsLg, varsSk, varsAg, varsNm, varsEv, varsOs>>
  \/ NextLg /\ UNCHANGED <<varsTw, varsTg, varsRl, varsDl, varsSd, varsWb, varsGs, varsSk, varsAg, varsNm, varsEv, varsOs>>
  \/ NextSk /\ UNCHANGED <<varsTw, varsTg, varsRl, varsDl, varsSd, varsWb, varsGs, varsLg, varsAg, varsNm, varsEv, varsOs>>
  \/ NextAg /\ UNCHANGED <<varsTw, varsTg, varsRl, varsDl, varsSd, varsWb, varsGs, varsLg, varsSk, varsNm, varsEv, varsOs>>
  \/ NextNm /\ UNCHANGED <<varsTw, varsTg, varsRl, varsDl, varsSd, varsWb, varsGs, varsLg, varsSk, varsAg, varsEv, varsOs>>
  \/ NextEv /\ UNCHANGED <<varsTw, varsTg, varsRl, varsDl, varsSd, varsWb, varsGs, varsLg, varsSk, varsAg, varsNm, varsOs>>
  \/ NextOs /\ UNCHANGED <<varsTw, varsTg, varsRl, varsDl, varsSd, varsWb, varsGs, varsLg, varsSk, varsAg, varsNm, varsEv>>

Spec == Init /\ [][Next]_vars

\* Each component on its own, the other two left in their initial state.
SpecTwilio == Init /\ [][NextTw /\ UNCHANGED <<varsTg, varsRl, varsDl, varsSd, varsWb, varsGs, varsLg, varsSk, varsAg, varsNm, varsEv, varsOs>>]_vars

SpecTelegram == Init /\ [][NextTg /\ UNCHANGED <<varsTw, varsRl, varsDl, varsSd, varsWb, varsGs, varsLg, varsSk, varsAg, varsNm, varsEv, varsOs>>]_vars

SpecRelay == Init /\ [][NextRl /\ UNCHANGED <<varsTw, varsTg, varsDl, varsSd, varsWb, varsGs, varsLg, varsSk, varsAg, varsNm, varsEv, varsOs>>]_vars

SpecDownload ==
  Init /\ [][NextDl /\ UNCHANGED <<varsTw, varsTg, varsRl, varsSd, varsWb, varsGs, varsLg, varsSk, varsAg, varsNm, varsEv, varsOs>>]_vars

\* Provider.send and sendTyping, with the download a streaming send runs
SpecSend ==
  Init /\ [][(NextSd \/ (NextDlRunning /\ sdPc = "download"
                                        /\ UNCHANGED varsSd))
              /\ UNCHANGED <<varsTw, varsTg, varsRl, varsWb, varsGs, varsLg, varsSk, varsAg, varsNm, varsEv, varsOs>>]_vars

SpecWeb ==
  Init /\ [][NextWb /\ UNCHANGED <<varsTw, varsTg, varsRl, varsDl, varsSd, varsGs, varsLg, varsSk, varsAg, varsNm, varsEv, varsOs>>]_vars

\* Provider.getDeliveryStatus
SpecStatus ==
  Init /\ [][NextGs /\ UNCHANGED <<varsTw, varsTg, varsRl, varsDl, varsSd, varsWb, varsLg, varsSk, varsAg, varsNm, varsEv, varsOs>>]_vars

\* loginTelegram and logoutTelegram
SpecLogin ==
  Init /\ [][NextLg /\ UNCHANGED <<varsTw, varsTg, varsRl, varsDl, varsSd, varsWb, varsGs, varsSk, varsAg, varsNm, varsEv, varsOs>>]_vars

\* deriveSessionKey
SpecSessionKey ==
  Init /\ [][NextSk /\ UNCHANGED <<varsTw, varsTg, varsRl, varsDl, varsSd, varsWb, varsGs, varsLg, varsAg, varsNm, varsEv, varsOs>>]_vars

\* The auto-reply engine handling inbound messages
SpecAgent ==
  Init /\ [][NextAg /\ UNCHANGED <<varsTw, varsTg, varsRl, varsDl, varsSd, varsWb, varsGs, varsLg, varsSk, varsNm, varsEv, varsOs>>]_vars

\* normalizeAllowFromEntry and normalizeE164
SpecNormalize ==
  Init /\ [][NextNm /\ UNCHANGED <<varsTw, varsTg, varsRl, varsDl, varsSd, varsWb, varsGs, varsLg, varsSk, varsAg, varsEv, varsOs>>]_vars

\* readEnv
SpecEnv ==
  Init /\ [][NextEv /\ UNCHANGED <<varsTw, varsTg, varsRl, varsDl, varsSd, varsWb, varsGs, varsLg, varsSk, varsAg, varsNm, varsOs>>]_vars

\* cleanOrphanedTempFiles
SpecSweep ==
  Init /\ [][NextOs /\ UNCHANGED <<varsTw, varsTg, varsRl, varsDl, varsSd, varsWb, varsGs, varsLg, varsSk, varsAg, varsNm, varsEv>>]_vars

\* The event loop runs every ready continuation: a settled import resumes
\* its wrapper, a settled allSettled resumes the supervisor; a monitor that
\* was handed the signal settles once it is aborted.
SpecRelayFair ==
  /\ SpecRelay
  /\ WF_vars(RlReturn /\ UNCHANGED <<varsTw, varsTg, varsDl, varsSd, varsWb, varsGs, varsLg, varsSk, varsAg, varsNm, varsEv, varsOs>>)
  /\ \A p \in Kinds :
       /\ WF_vars((RlImportDone(p) \/ RlImportFail(p))
                  /\ UNCHANGED <<varsTw, varsTg, varsDl, varsSd, varsWb, varsGs, varsLg, varsSk, varsAg, varsNm, varsEv, varsOs>>)
       /\ WF_vars(RlMonitorStops(p) /\ UNCHANGED <<varsTw, varsTg, varsDl, varsSd, varsWb, varsGs, varsLg, varsSk, varsAg, varsNm, varsEv, varsOs>>)

\* ------------------------------------------------------------------------
\* Properties
\* ------------------------------------------------------------------------
\* C1: when the listener was started with an allow-list, an inbound message
\* whose sender matches no entry of the list is not passed to the handler and
\* gets no reply.
C1_NonMemberNeverHandled ==
  (tgLast.from # <<>> /\ tgLast.allowFrom.present
     /\ ~InAllowList(tgLast.from, tgLast.allowFrom.list))
    => (~tgLast.handled /\ ~tgLast.replied)

\* C2: a present but empty allow-list denies every sender, an absent
\* allow-list allows every sender.
C2_EmptyDeniesAbsentAllows ==
  (tgLast.from # <<>> /\ ~tgLast.out)
    => IF tgLast.allowFrom.present
       THEN tgLast.allowFrom.list = <<>> => ~tgLast.handled
       ELSE tgLast.handled

\* C3: once the shared signal is aborted, every provider the supervisor
\* started ends up disconnected.
C3_AbortDisconnectsAll ==
  rlAborted ~> (\A p \in rlProviders : ~rlConnected[p])

\* C4: no monitor is still running when runMultiProviderRelay has returned.
C4_ReturnsAfterMonitorsSettled ==
  rlSup = "returned" => \A p \in rlProviders : rlMon[p] # "running"

\* C5 as stated: the error of every failed monitor is logged.
C5_EveryFailureLogged ==
  \A p \in Kinds : rlMon[p] = "rejected" => rlLogged[p]

\* C5: the error of a monitor that fails before the signal is aborted is
\* logged; no wrapper rejects, so the supervisor does not reject; the
\* supervisor returns only once every wrapper has settled; and the failure of
\* one monitor changes nothing of another provider's monitor or wrapper.
C5_FailureIsolated ==
  /\ [](\A p \in Kinds :
          /\ (rlMon[p] = "rejected" /\ ~rlFailAborted[p]) => rlLogged[p]
          /\ rlWrap[p] # "rejected"
          /\ (rlSup = "returned" /\ p \in rlProviders) => rlWrap[p] = "fulfilled")
  /\ [][\A p \in Kinds :
          (rlMon[p] = "running" /\ rlMon'[p] = "rejected")
            => /\ \A q \in Kinds \ {p} :
                    /\ rlMon'[q] = rlMon[q]
                    /\ rlWrap'[q] = rlWrap[q]
                    /\ rlConnected'[q] = rlConnected[q]
               /\ rlSup' = rlSup]_vars

\* a monitor failed before the abort and was logged while another monitor is
\* still running and the supervisor still waits
C5_Witness ==
  \E p, q \in Kinds :
    /\ p # q
    /\ rlMon[p] = "rejected" /\ ~rlFailAborted[p] /\ rlLogged[p]
    /\ rlMon[q] = "running"
    /\ rlSup = "waiting"

\* C6: once the signal is aborted the supervisor eventually returns, also
\* when a raced monitor never completes.
C6_AbortedEventuallyReturns ==
  rlAborted ~> (rlSup = "returned")

\* the supervisor has returned after an abort while a raced monitor is still
\* running
C6_Witness ==
  /\ rlSup = "returned"
  /\ rlAborted
  /\ \E p \in rlProviders : Raced(rlVersion, p) /\ rlMon[p] = "running"

\* C7: a message handed to the handler is newer than the newest message an
\* earlier iteration recorded.
C7_OlderOrEqualSkipped ==
  twLastCall.sid # 0 => (twLastCall.seen = 0 \/ twLastCall.sid > twLastCall.seen)

\* C8: the handler is invoked in arrival order: a call never follows the call
\* for a newer message.
C8_ArrivalOrder ==
  [][twLastCall'.sid >= twLastCall.sid]_vars

\* C9: when the handler throws, the messages of the same iteration that were
\* not handed over yet are still delivered: none is left.
C9_ThrowIsolated ==
  twLastIter.how = "handlerError" => twLastIter.remaining = <<>>

\* C10: a poll iteration that ends in a failure leaves the provider listening
\* and its timer armed: the timer of the closure is alive after a failed
\* initial poll, and no timer is lost by a failed later poll.
C10_FailedPollKeepsPolling ==
  [][\A p \in BagToSet(twPolls) :
       (CopiesIn(p, twPolls') < CopiesIn(p, twPolls)
          /\ PollsInFlight' < PollsInFlight
          /\ twLastIter'.how \in {"fetchError", "handlerError"})
         => /\ twListening' = twListening
            /\ twTimers \subseteq twTimers'
            /\ p.initial => p.sess \in twTimers']_vars

\* the initial poll failed: the provider is listening and its timer is armed
C10_Witness ==
  /\ twLastIter.how = "fetchError"
  /\ twListening
  /\ twTimers # {}

\* C15: a streaming download whose cumulative byte count exceeds maxSize is
\* aborted at once and never returns a handle.
C15_NeverOverLimit ==
  dlTotal > dlMaxSize => dlPc \in {"rmOnError", "threw"}

\* a download was aborted by the size check after a chunk was accepted
C15_Witness ==
  /\ dlPc = "threw"
  /\ dlError = "size"
  /\ dlChunks = 2
  /\ dlTotal > dlMaxSize

\* C17 as stated: once the cleanup closure has returned, the temp file does
\* not exist.
C17_CleanupRemovesFile ==
  dlCleanupReturned => dlFile = "none"

\* C17: once the cleanup closure has returned, the temp file does not exist
\* unless the removal itself was rejected (the rejection is swallowed).
C17_CleanupRemovesUnlessRmFails ==
  dlCleanupReturned => (dlFile = "none" \/ dlRmFailed)

\* the cleanup of a handle for a non-empty file has returned and removed it
C17_Witness ==
  /\ dlCleanupReturned
  /\ dlTotal > 0
  /\ dlFile = "none"
  /\ ~dlRmFailed

\* C18 as stated: after a failed download no temp file remains.
C18_FailureLeavesNoFile ==
  dlPc = "threw" => dlFile = "none"

\* C18: after a failed download no temp file remains unless the removal in
\* the catch block was itself rejected; failures before the write stream is
\* created never leave a file.
C18_FailureLeavesNoFileUnlessRmFails ==
  /\ dlPc = "threw" => (dlFile = "none" \/ dlRmFailed)
  /\ (dlPc = "threw" /\ dlError \in {"mkdir", "rejected", "notOk", "noBody"})
       => dlFile = "none"

\* a download failed after its file was created and the file was removed
C18_Witness ==
  /\ dlPc = "threw"
  /\ dlError \in {"size", "stream"}
  /\ dlFile = "none"

\* C11: send on an initialised provider never throws: when it fails it
\* returns a SendResult with status failed.
C11_SendNeverThrows ==
  (sdInit /\ sdPc = "done") => sdResult \in {"sent", "failed"}

\* C12: sendTyping never throws, for every provider and whether or not the
\* provider is initialised.
C12_SendTypingNeverThrows ==
  sdTyping.outcome # "threw"

\* C13: a send with a media attachment whose declared size exceeds
\* maxMediaSize makes no network request and is not sent.
C13_OversizeRejectedBeforeNetwork ==
  (sdInit /\ sdMedia.kind # "none" /\ sdMedia.size > sdMaxMedia)
    => (sdRequests = {} /\ sdResult # "sent")

\* C14: a Telegram send by URL whose HEAD response advertises a
\* Content-Length above the configured maxMediaSize does not request the
\* body, is rejected, and leaves no temp file.
C14_HeadOversizeRejected ==
  (sdProv = "telegram" /\ sdContentLength > sdMaxMedia)
    => /\ ~sdBodyRequested
       /\ sdPc = "done" /\ sdResult = "threw"
       /\ dlFile = "none"

C19_StopCompletesHandlers ==
  [][(twListening /\ ~twListening')
       => \A p \in BagToSet(twPolls') : p.st # "handler"]_vars

\* C20: a second stopListening() after the first has returned changes
\* nothing: it throws nothing and clears, removes or closes nothing again,
\* for the Twilio, the Telegram and the Web provider.
C20_StopTwiceLikeOnce ==
  /\ TwStopFields \in TwStopFieldValues
  /\ TwStopped(TwStopped(TwStopFields)) = TwStopped(TwStopFields)
  /\ \A f \in TwStopFieldValues : TwStopped(TwStopped(f)) = TwStopped(f)
  /\ \A f \in TgStopFieldValues : TgStopped(TgStopped(f)) = TgStopped(f)
  /\ \A f \in WbStopFieldValues : WbStopped(WbStopped(f)) = WbStopped(f)

\* a provider that was listening with its timer armed has been stopped
C20_Witness ==
  /\ ~twListening
  /\ twSessions = 1
  /\ twLastIter.how # "none"
  /\ twTimers = {}
  /\ twPollIntervalId = 0

\* C21: once disconnect() has returned the provider is not listening: no
\* poll timer of it is left and it is not marked listening.
C21_DisconnectStopsListening ==
  (~twClient /\ ~twConfig) => (twTimers = {} /\ ~twListening)

\* C22: no disconnect() call ends with an error, whatever state the
\* provider is in.
C22_DisconnectNeverThrows == tgDisconnect # "threw"

\* C23: the Twilio interval, the Twilio lookback and the WA-Web tuning
\* supplied in opts are the values the started monitors are called with.
C23_TuningPropagated ==
  /\ (rlMon["wa-twilio"] # "none" /\ rlOpts.twilioInterval # 0)
       => rlTuning.twilioInterval = rlOpts.twilioInterval
  /\ (rlMon["wa-twilio"] # "none" /\ rlOpts.twilioLookback # 0)
       => rlTuning.twilioLookback = rlOpts.twilioLookback
  /\ (rlMon["wa-web"] # "none" /\ rlOpts.webTuning # "absent")
       => rlTuning.webTuning = rlOpts.webTuning

\* C24: a SIGTERM received while the supervisor runs aborts the shared
\* controller, as a SIGINT does.
C24_SigintOrSigtermAborts == rlSigterm => rlAborted

\* C25: Twilio getDeliveryStatus maps sent, sending and queued to sent,
\* delivered to delivered, read to read, failed, undelivered and canceled to
\* failed, and every other backend status to unknown.
C25_StatusMapping ==
  (gsKind = "wa-twilio" /\ gsPc = "done" /\ ~gsResult.threw
     /\ gsResult.error # "fetch error")
    => gsResult.status =
         CASE gsMessage.status \in {"sent", "sending", "queued"} -> "sent"
           [] gsMessage.status = "delivered" -> "delivered"
           [] gsMessage.status = "read" -> "read"
           [] gsMessage.status \in {"failed", "undelivered", "canceled"}
                -> "failed"
           [] OTHER -> "unknown"

C27_LogoutRevokesAndErases ==
  (lgOp = "logout" /\ lgPc = "done" /\ lgOutcome = "ok")
    => (lgRevoked /\ ssPreferred = "none" /\ ssLegacy = "none")

\* a logout has succeeded that found both token files
C27_Witness ==
  /\ lgOp = "logout" /\ lgPc = "done" /\ lgOutcome = "ok"
  /\ lgBefore.preferred # "none" /\ lgBefore.legacy # "none"

\* C28: with per-sender scope the key of a Telegram sender identifier
\* differs from the key of every WhatsApp phone-number sender.
C28_TelegramKeysApart ==
  (skScope = "per-sender" /\ IsTelegramSender(skFrom))
    => \A w \in WhatsAppSenders : DeriveSessionKey("per-sender", w) # skKey

\* a key was derived for a Telegram numeric id whose digits are also a
\* WhatsApp number
C28_Witness ==
  /\ skScope = "per-sender"
  /\ skFrom = <<"telegram:", "1">>
  /\ skKey = <<"telegram:", "1">>
  /\ <<"+", "1">> \in WhatsAppSenders

C30_OneInvocationPerSession ==
  \A key \in AgSessions : Cardinality(InFlight(key)) <= 1

\* a message waits behind the running invocation of its own session while
\* another session's invocation runs at the same time
C30_Witness ==
  \E i, j, k \in Inbounds :
    /\ agPc[i] = "invoking" /\ agPc[j] = "waiting" /\ agPc[k] = "invoking"
    /\ agSession[i] = agSession[j]
    /\ agSession[k] # agSession[i]

\* C31: for every provider kind, normalising the result of a normalisation
\* returns that result unchanged.
C31_NormalizeIdempotent == (nmPc = "twice") => (nmTwice = nmOnce)

\* a Telegram user name in upper case without "@" or prefix was normalised
\* twice, and the first call changed it
C31_Witness ==
  /\ nmPc = "twice"
  /\ nmProvider = "telegram"
  /\ nmEntry = <<"A">>
  /\ nmOnce = <<"telegram:", "@", "a">>

\* C32: for a WhatsApp kind the normaliser returns "+" followed only by
\* digits, or rejects the input with the empty result.
C32_NormalizeCanonicalOrRejects ==
  (nmPc # "idle" /\ nmProvider # "telegram")
    => (nmOnce = <<>> \/ IsE164(nmOnce))

\* C33: in every provider mode readEnv aborts when the environment holds a
\* Twilio API key without its secret or the reverse, or only one of the
\* Telegram API id and API hash.
C33_InconsistentEnvAborts ==
  (/\ evResult # "none"
   /\ \/ evEnv.TWILIO_API_KEY # evEnv.TWILIO_API_SECRET
      \/ evEnv.TELEGRAM_API_ID # evEnv.TELEGRAM_API_HASH)
    => evResult = "aborted"

\* C34: the sweep removes a file only if it is older than the one-hour TTL
\* and is named like a download; every other file stays.
C34_SweepOnlyOldDownloads ==
  \A file \in osBefore \ osDir : file.download /\ file.age > OrphanTtl

\* C35: once stopListening has returned, the handler is not invoked until
\* startListening is called again, also when stopListening was called while
\* the initial poll of startListening was in progress.
C35_NoHandlerAfterStop ==
  [][(~twListening /\ twSessions > 0)
       => \A p \in BagToSet(twPolls') :
            p.st = "handler" => p \in BagToSet(twPolls)]_vars

\* C36: a provider has at most one active inbound subscription, for any
\* sequence or overlap of startListening and stopListening calls.
C36_OneSubscription ==
  Cardinality({i \in 1..wbInstances : wbCloses[i] = 0}) <= 1

\* C37: at most one Twilio poll iteration is in progress at any time.
C37_OnePollIteration == PollsInFlight <= 1

C39_FailedInitializeRefusesStart ==
  [][(TwStartListening /\ twConfig /\ ~twClient) => twStartError' # "none"]_vars

\* C40: when the server rejects the revocation during logout, the token
\* files are as they were when logout was called.
C40_FailedRevocationKeepsFiles ==
  (lgOp = "logout" /\ lgFailed = "revoke") => Files = lgBefore

\* a logout that found a token written by the last login has ended after
\* its LogOut request was rejected
C40_Witness ==
  /\ lgOp = "logout" /\ lgPc = "done" /\ lgFailed = "revoke"
  /\ lgOutcome = "exit"
  /\ "new" \in {lgBefore.preferred, lgBefore.legacy}
  /\ Files = lgBefore

====
